---- MODULE Spec2Model ----
(***************************************************************************)
(* hapijs/inert: the file-serving core.                                    *)
(*                                                                         *)
(*   lib/file.js   exports.response, internals.prepare / marshal /         *)
(*                 openStream / openStat / close  (the request pipeline)   *)
(*   lib/etag.js   internals.computeHashed / hashFile, exports.apply       *)
(*   lib/fs.js     exports.File: open / close / stat / createReadStream    *)
(*                                                                         *)
(*   lib/directory.js  exports.handler: base directories, index files,     *)
(*                 redirect, listing                                       *)
(*                                                                         *)
(* Seven specifications share the definitions below:                       *)
(*   Spec         NumReqs concurrent requests through the pipeline         *)
(*   SpecConfine  one request, every logical path of LogicalPaths          *)
(*   SpecFile     one fs.js File handle driven by a sequential caller      *)
(*   SpecEtag     one request slot reused while the file changes on disk   *)
(*   SpecRange    one request, every Range header of RangeHeaders          *)
(*   SpecDir      one request served by the directory handler              *)
(*   SpecLoad     one request made by exports.response or exports.load     *)
(*                                                                         *)
(* Node's event loop runs one callback at a time: every action is one      *)
(* callback (or one synchronous call) run to its next suspension point.    *)
(***************************************************************************)
EXTENDS Integers, Sequences, FiniteSets, TLC

\* ---------------------------------------------------------------- bounds
NumReqs == 2
MaxOpens == 2
CacheMax == 2

\* ----------------------------------------------------------- characters
\* A path is a sequence of one-character strings; NUL stands for '\u0000'.
NUL == "NUL"
Null == 0

\* ------------------------------------------------------- Path (posix)
IsAbsolute(p) == Len(p) > 0 /\ p[1] = "/"

RECURSIVE SplitFrom(_, _, _)
SplitFrom(p, i, cur) ==
    IF i > Len(p) THEN <<cur>>
    ELSE IF p[i] = "/" THEN <<cur>> \o SplitFrom(p, i + 1, <<>>)
    ELSE SplitFrom(p, i + 1, Append(cur, p[i]))

RECURSIVE NormalizeSegs(_, _, _)
NormalizeSegs(segs, acc, allowAboveRoot) ==
    IF segs = <<>> THEN acc
    ELSE LET s == Head(segs)
             rest == Tail(segs)
         IN IF s = <<>> \/ s = <<".">> THEN NormalizeSegs(rest, acc, allowAboveRoot)
            ELSE IF s = <<".", ".">>
                 THEN IF acc # <<>> /\ acc[Len(acc)] # <<".", ".">>
                      THEN NormalizeSegs(rest, SubSeq(acc, 1, Len(acc) - 1), allowAboveRoot)
                      ELSE IF allowAboveRoot
                           THEN NormalizeSegs(rest, Append(acc, s), allowAboveRoot)
                           ELSE NormalizeSegs(rest, acc, allowAboveRoot)
                 ELSE NormalizeSegs(rest, Append(acc, s), allowAboveRoot)

RECURSIVE JoinSegs(_)
JoinSegs(segs) ==
    IF segs = <<>> THEN <<>>
    ELSE IF Len(segs) = 1 THEN segs[1]
    ELSE segs[1] \o <<"/">> \o JoinSegs(Tail(segs))

NormalizeString(p, allowAboveRoot) ==
    JoinSegs(NormalizeSegs(SplitFrom(p, 1, <<>>), <<>>, allowAboveRoot))

\* Path.normalize
Normalize(p) ==
    IF Len(p) = 0 THEN <<".">>
    ELSE LET abs == IsAbsolute(p)
             trailing == p[Len(p)] = "/"
             n == NormalizeString(p, ~abs)
             n1 == IF Len(n) = 0 /\ ~abs THEN <<".">> ELSE n
             n2 == IF Len(n1) > 0 /\ trailing THEN n1 \o <<"/">> ELSE n1
         IN IF abs THEN <<"/">> \o n2 ELSE n2

\* Path.join(a, b)
Join(a, b) ==
    LET joined == IF Len(a) = 0 THEN b
                  ELSE IF Len(b) = 0 THEN a
                  ELSE a \o <<"/">> \o b
    IN IF Len(joined) = 0 THEN <<".">> ELSE Normalize(joined)

\* Path.resolve(from, to), for an absolute `from`
Resolve(from, to) ==
    LET full == IF IsAbsolute(to) THEN to ELSE from \o <<"/">> \o to
    IN <<"/">> \o NormalizeString(full, FALSE)

\* path.lastIndexOf(prefix, 0) === 0
StartsWith(path, prefix) ==
    /\ Len(prefix) <= Len(path)
    /\ SubSeq(path, 1, Len(prefix)) = prefix

HasNul(p) == \E i \in 1..Len(p) : p[i] = NUL

\* ------------------------------------------------------- environment
\* The route's files.relativeTo directory and the files on disk.
RelativeTo == <<"/", "d">>
GzSuffix == <<".", "g", "z">>
NullPath == <<"null">>
NoPath == <<>>

RegularFiles == { <<"/", "d", "/", "x">>, <<"/", "d", "/", "y">>, <<"/", "d", "/", "o">>,
                  <<"/", "d", "/", "x", ".", "g", "z">>,
                  <<"/", "d", "2", "/", "x">>, <<"/", "e">>,
                  <<"/", "d", "/", "s", "/", "i">>, <<"/", "d", "/", ".", "h">>,
                  <<"/", "d", "/", "m", ".", "g", "z">> }
Directories == { <<"/">>, <<"/", "d">>, <<"/", "d", "/", "s">>, <<"/", "d", "2">>,
                 <<"/", "d", "/", "o", ".", "g", "z">>,
                 <<"/", "d", "/", "s", "/", "k">>, <<"/", "d", "2", "/", "m", ".", "g", "z">> }

FsKind(path) ==
    IF path \in RegularFiles THEN "file"
    ELSE IF path \in Directories THEN "dir"
    ELSE "none"

\* Logical paths a handler may be configured with or a request may select.
SpecPaths == { <<"x">>, <<"s">>, <<".", ".", "/", "e">> }
LogicalPaths == SpecPaths \cup
    { <<"y">>, <<"m">>, <<".", ".", "/", "d", "2", "/", "x">>,
      <<"/", "d", "/", "x">>, <<"/", "d", "2", "/", "x">>, <<"/", "e">>,
      <<"s", "/", ".", ".", "/", "x">>, <<".", ".">>, <<"x", NUL>>,
      <<"/", "d", "/", ".", ".", "/", "e">> }
ConfineOptions == { <<".">>, <<>> }          \* '.' (confine: true) or false
FilePaths == { <<"/", "d", "/", "x">>, <<"/", "d", "/", "s">>, <<"/", "d", "/", "m">>,
               <<"/", "d", "/", "x", NUL>> }

\* What Fs.open(path) can call back with.  Node rejects a path holding a NUL
\* character before any system call is made; a missing file gives ENOENT; an
\* existing one opens or fails with a permission or resource error.
OpenErrors == { "ENOENT", "EACCES", "EPERM", "EMFILE" }
FsOpenOutcomes(path) ==
    IF HasNul(path) THEN OpenErrors \cup { "ERR_INVALID_ARG_VALUE" }
    ELSE IF FsKind(path) = "none" THEN { "ENOENT" }
    ELSE { "ok", "EACCES", "EPERM", "EMFILE" }
ReachesFilesystem(path) == ~HasNul(path)

\* What Fs.fstat(fd) can call back with: a stat or an I/O error.
FstatOutcomes == { "ok", "EIO" }

\* The states /d/x can be in on disk: inode, size in bytes, mtime in epoch
\* milliseconds, and `rev` naming its content.
VersionA == [ino |-> 1, size |-> 4, mtime |-> 71, rev |-> "a"]
VersionB == [ino |-> 1, size |-> 47, mtime |-> 1, rev |-> "b"]
VersionC == [ino |-> 1, size |-> 4, mtime |-> 72, rev |-> "c"]
Versions == { VersionA, VersionB, VersionC }
Modifiable == <<"/", "d", "/", "x">>
NoStat == [ino |-> 0, size |-> 0, mtime |-> 0]

\* -------------------------------------------------------------- errors
Err(kind, code, msg, path) == [kind |-> kind, code |-> code, msg |-> msg, path |-> path]
NoErr == Err("", "", "", <<>>)

\* --------------------------------------------------- lib/file.js (pure)
\* exports.response: the resolved source.path, NullPath when the path
\* leaves the confinement directory.
ResponsePath(path, confine) ==
    IF confine # <<>>
    THEN LET confineDir == Resolve(RelativeTo, confine)
             resolved == IF IsAbsolute(path) THEN Normalize(path) ELSE Join(confineDir, path)
         IN IF ~StartsWith(resolved, confineDir) THEN NullPath ELSE resolved
    ELSE IF IsAbsolute(path) THEN Normalize(path) ELSE Join(RelativeTo, path)

\* internals.openStat: the error handed to the callback when Fs.open fails.
OpenStatOpenError(path, code) ==
    IF HasNul(path) \/ code = "ENOENT" THEN Err("NotFound", "", "", <<>>)
    ELSE IF code = "EACCES" \/ code = "EPERM" THEN Err("Forbidden", code, "", <<>>)
    ELSE Err("Internal", code, "Failed to open file", <<>>)

\* internals.openStat: the error handed to the callback after Fs.fstat.
OpenStatStatError(res, isDirectory) ==
    IF res # "ok" THEN Err("Internal", res, "Failed to stat file", <<>>)
    ELSE IF isDirectory THEN Err("Forbidden", "EISDIR", "", <<>>)
    ELSE NoErr

\* ----------------------------------------------------- lib/fs.js (pure)
\* Mutant: the permission test comes before the NUL / ENOENT test.
FileOpenErrorPermFirst(path, code) ==
    IF code = "EACCES" \/ code = "EPERM" THEN Err("Forbidden", code, "", path)
    ELSE IF HasNul(path) \/ code = "ENOENT" THEN Err("NotFound", "", "", path)
    ELSE Err("Internal", code, "Failed to open file", path)

\* Mutant: the path is not searched for a NUL character.
FileOpenErrorNoNul(path, code) ==
    IF code = "ENOENT" THEN Err("NotFound", "", "", path)
    ELSE IF code = "EACCES" \/ code = "EPERM" THEN Err("Forbidden", code, "", path)
    ELSE Err("Internal", code, "Failed to open file", path)

\* File.prototype.open: the error thrown when exports.open rejects.
FileOpenError(path, code) ==
    IF HasNul(path) \/ code = "ENOENT" THEN Err("NotFound", "", "", path)
    ELSE IF code = "EACCES" \/ code = "EPERM" THEN Err("Forbidden", code, "", path)
    ELSE Err("Internal", code, "Failed to open file", path)

\* Bounce.rethrow(err, ['boom', 'system']) followed by Boom.boomify: what
\* File.prototype.stat throws for an error of the given class caught in
\* its try block.
FileStatError(path, class, err) ==
    IF class = "boom" \/ class = "system" THEN err
    ELSE Err("Internal", err.code, "Failed to stat file", path)

\* -------------------------------------------------------- decimal numerals
Digit(n) == CASE n = 0 -> "0" [] n = 1 -> "1" [] n = 2 -> "2" [] n = 3 -> "3"
              [] n = 4 -> "4" [] n = 5 -> "5" [] n = 6 -> "6" [] n = 7 -> "7"
              [] n = 8 -> "8" [] n = 9 -> "9"

RECURSIVE NumToString(_)
NumToString(n) ==
    IF n < 0 THEN <<"-">> \o NumToString(0 - n)
    ELSE IF n < 10 THEN <<Digit(n)>>
    ELSE NumToString(n \div 10) \o <<Digit(n % 10)>>

\* ------------------------------------------- Range header (package ammo)
\* A Range header value '<unit><sep><spec>,<spec>...' with each spec
\* '<from>-<to>', either number possibly missing (None).
None == 0 - 1
NoHeader == <<>>
RangeSpec(from, to) == [from |-> from, to |-> to]
RangeHeader(unit, sep, specs) == [unit |-> unit, sep |-> sep, specs |-> specs]
NullRanges == [ok |-> FALSE, ranges |-> <<>>]
Ranges(seq) == [ok |-> TRUE, ranges |-> seq]
NoRange == [from |-> None, to |-> None]

\* Ammo.header: one '<from>-<to>' spec against the length; NoRange when the
\* spec is empty or inverted.
AmmoRange(spec, length) ==
    LET lastPos == length - 1
        range == IF spec.from # None /\ spec.to # None
                 THEN [from |-> spec.from, to |-> IF spec.to > lastPos THEN lastPos ELSE spec.to]
                 ELSE IF spec.to # None
                 THEN [from |-> length - spec.to, to |-> lastPos]
                 ELSE [from |-> spec.from, to |-> lastPos]
    IN IF spec.from = None /\ spec.to = None THEN NoRange
       ELSE IF range.from > range.to THEN NoRange
       ELSE range

\* Ammo.header(header, length): the ranges of the header, sorted and
\* consolidated, or NullRanges when the header is invalid.  Headers carry
\* one or two specs.
AmmoHeader(h, length) ==
    IF h.unit # "bytes" \/ h.sep # "=" THEN NullRanges
    ELSE LET parsed == [i \in 1..Len(h.specs) |-> AmmoRange(h.specs[i], length)]
         IN IF \E i \in 1..Len(parsed) : parsed[i] = NoRange THEN NullRanges
            ELSE IF Len(parsed) = 1 THEN Ranges(parsed)
            ELSE LET first == IF parsed[1].from <= parsed[2].from THEN parsed[1] ELSE parsed[2]
                     second == IF parsed[1].from <= parsed[2].from THEN parsed[2] ELSE parsed[1]
                 IN IF second.from <= first.to + 1
                    THEN Ranges(<< [from |-> first.from, to |-> second.to] >>)
                    ELSE Ranges(<< first, second >>)

\* ---------------------------------------------------- lib/etag.js (pure)
\* Mutant: the mtime is left out of the key.
CacheKeyNoMtime(path, stat) ==
    path \o <<"-">> \o NumToString(stat.ino) \o <<"-">> \o NumToString(stat.size)

\* [path, stat.ino, stat.size, stat.mtime.getTime()].join('-')
CacheKey(path, stat) ==
    path \o <<"-">> \o NumToString(stat.ino) \o <<"-">> \o NumToString(stat.size)
         \o <<"-">> \o NumToString(stat.mtime)

\* The LRU cache (server.plugins.inert._etags): entries most recent first.
NoEtag == <<>>
CacheHas(cache, key) == \E i \in 1..Len(cache) : cache[i].key = key
CacheIndex(cache, key) == CHOOSE i \in 1..Len(cache) : cache[i].key = key
\* Mutant: get() returns the most recently used entry whatever its key.
CacheValueNewest(cache, key) ==
    IF CacheHas(cache, key) THEN cache[1].val ELSE NoEtag

\* etags.get(cachekey): the value found
CacheValue(cache, key) ==
    IF CacheHas(cache, key) THEN cache[CacheIndex(cache, key)].val ELSE NoEtag
CacheWithout(cache, key) == SelectSeq(cache, LAMBDA e : e.key # key)
CacheGet(cache, key) ==
    IF CacheHas(cache, key)
    THEN <<cache[CacheIndex(cache, key)]>> \o CacheWithout(cache, key)
    ELSE cache
CacheSet(cache, key, val) ==
    LET all == <<[key |-> key, val |-> val]>> \o CacheWithout(cache, key)
    IN SubSeq(all, 1, IF Len(all) < CacheMax THEN Len(all) ELSE CacheMax)

HexDigit(n) == CASE n < 10 -> Digit(n) [] n = 10 -> "a" [] n = 11 -> "b" [] n = 12 -> "c"
                 [] n = 13 -> "d" [] n = 14 -> "e" [] n = 15 -> "f"

RECURSIVE NumToHex(_)
NumToHex(n) ==
    IF n < 0 THEN <<"-">> \o NumToHex(0 - n)
    ELSE IF n < 16 THEN <<HexDigit(n)>>
    ELSE NumToHex(n \div 16) \o <<HexDigit(n % 16)>>

\* Mutant: toString() without the radix.
ComputeSimpleDecimal(stat) == NumToString(stat.size) \o <<"-">> \o NumToString(stat.mtime)

\* internals.computeSimple
ComputeSimple(stat) == NumToHex(stat.size) \o <<"-">> \o NumToHex(stat.mtime)

\* ------------------------------------------ lib/file.js: ranges (pure)
\* The response as marshal leaves it: status code, content-length,
\* content-range, accept-ranges, content-encoding, last-modified and vary
\* headers, the start and end options of the body stream, and the
\* content-range header of a 416.
NoLength == 0 - 1
NewResponse ==
    [code |-> 200, length |-> NoLength, contentRange |-> NoHeader, acceptRanges |-> FALSE,
     encoding |-> "", start |-> None, end |-> None, errContentRange |-> NoHeader,
     lastModified |-> NoHeader, vary |-> NoHeader]

\* stat.mtime.toUTCString(): the date to the second, the milliseconds dropped
ToUTCString(mtime) == <<"utc">> \o NumToString(mtime \div 1000)

\* Mutant: the substitution takes last-modified from the sibling's stat too.
SubstitutedWithDate(hdr, stat) ==
    [hdr EXCEPT !.length = stat.size, !.encoding = "gzip", !.vary = <<"accept-encoding">>,
                !.lastModified = ToUTCString(stat.mtime)]

\* internals.marshal: response.bytes(stat.size), the content-encoding header
\* and response.vary('accept-encoding'), with the sibling's stat
Substituted(hdr, stat) ==
    [hdr EXCEPT !.length = stat.size, !.encoding = "gzip", !.vary = <<"accept-encoding">>]

\* What marshal reads of the request and the route: settings.lookupCompressed,
\* connection.settings.compression, info.acceptEncoding ("" when null),
\* mime.compressible, route response.ranges, and the range / if-range headers.
Request(lookupCompressed, compression, acceptEncoding, compressible, ranges, range, ifRange) ==
    [lookupCompressed |-> lookupCompressed, compression |-> compression,
     acceptEncoding |-> acceptEncoding, compressible |-> compressible,
     ranges |-> ranges, range |-> range, ifRange |-> ifRange]
NoRequest == Request(FALSE, FALSE, "", FALSE, TRUE, NoHeader, NoHeader)

\* response.headers.etag: the ETag, quoted
EtagHeader(e) == IF e = NoEtag THEN NoHeader ELSE <<"\"">> \o e \o <<"\"">>

\* Mutant: the content-range header without the full length.
ContentRangeNoLength(from, to, length) ==
    <<"bytes", " ">> \o NumToString(from) \o <<"-">> \o NumToString(to)

\* 'bytes ' + range.from + '-' + range.to + '/' + length
ContentRange(from, to, length) ==
    <<"bytes", " ">> \o NumToString(from) \o <<"-">> \o NumToString(to) \o <<"/">>
        \o NumToString(length)

\* Mutant: the content-range header of a 416 without the length.
ContentRangeUnsatisfiedNoLength(length) == <<"bytes", " ", "*", "/">>

\* 'bytes */' + length
ContentRangeUnsatisfied(length) == <<"bytes", " ", "*", "/">> \o NumToString(length)

\* Hoek.reach(request.route.settings, 'response.ranges') !== false
RangesEnabled(q) == q.ranges

\* Mutant: a Range header is looked at whatever the content-length.
RangeRequestedAnyLength(q, length) == q.range # NoHeader

\* request.headers.range && length
RangeRequested(q, length) == q.range # NoHeader /\ length # NoLength /\ length # 0

\* Mutant: If-Range is not looked at.
IfRangeIgnored(q, etagHeader) == TRUE

\* !request.headers['if-range'] || request.headers['if-range'] === response.headers.etag
IfRangeHolds(q, etagHeader) == q.ifRange = NoHeader \/ q.ifRange = etagHeader

\* Mutant: the host is taken never to encode the content.
TransitEncodingNone(q, contentEncoding) == ""

\* The encoding the host will apply to the content on its way out ("" for
\* null): compression && mime.compressible && !content-encoding ?
\* acceptEncoding : null
TransitEncoding(q, contentEncoding) ==
    IF q.compression /\ q.compressible /\ contentEncoding = "" THEN q.acceptEncoding ELSE ""

\* Mutant: of several ranges the first is served.
SingleRangeOrFirst(ranges) == Len(ranges) >= 1

\* ranges.length === 1
SingleRange(ranges) == Len(ranges) = 1

\* Mutant: accept-ranges is set before the header is parsed.
AcceptRangesSetAlways(kind) == TRUE

\* Whether response.header('accept-ranges', 'bytes') is reached: not when
\* addContentRange returns the range error.
AcceptRangesSet(kind) == kind # "unsat"

\* internals.addContentRange: what the negotiation comes to for request
\* inputs q and a response with the given content-length, etag and
\* content-encoding headers: the range to serve if any (kind "single"), a 416
\* (kind "unsat"), or the full content (kind "none"); `accept` tells whether
\* accept-ranges is set.
AddContentRange(q, length, etagHeader, contentEncoding) ==
    LET full == [kind |-> "none", from |-> None, to |-> None, accept |-> AcceptRangesSet("none")]
        encoding == TransitEncoding(q, contentEncoding)
        ranges == AmmoHeader(q.range, length)
    IN IF ~RangesEnabled(q) THEN [full EXCEPT !.accept = FALSE]
       ELSE IF ~RangeRequested(q, length) THEN full
       ELSE IF ~IfRangeHolds(q, etagHeader) THEN full
       ELSE IF ~(encoding = "identity" \/ encoding = "") THEN full
       ELSE IF ~ranges.ok
            THEN [kind |-> "unsat", from |-> None, to |-> None, accept |-> AcceptRangesSet("unsat")]
       ELSE IF SingleRange(ranges.ranges)
            THEN [kind |-> "single", from |-> ranges.ranges[1].from, to |-> ranges.ranges[1].to,
                  accept |-> AcceptRangesSet("single")]
       ELSE full

\* internals.marshal: whether the precompressed sibling is looked up
LookupCompressed(q) == q.lookupCompressed /\ q.compression /\ q.acceptEncoding = "gzip"

\* Mutant: a missing cache does not stop the computation.
HashAppliesWithoutCache(method, on) == method = "hash"

\* exports.apply and the head of internals.computeHashed: the content is
\* hashed (or looked up) when etagMethod is neither false nor 'simple' and
\* server.plugins.inert._etags is a cache.
HashApplies(method, on) == method = "hash" /\ on

\* Mutant: the pending table is never consulted.
PendingsGetMiss(p, key) == Null

\* internals.pendings[cachekey]: the initiator of the promise stored there.
PendingsGet(p, key) ==
    IF \E e \in p : e[1] = key THEN (CHOOSE e \in p : e[1] = key)[2] ELSE Null
\* internals.pendings[cachekey] = promise
PendingsSet(p, key, r) == { e \in p : e[1] # key } \cup { <<key, r>> }
\* Mutant: the pending entry is left in the table.
PendingsDeleteKeep(p, key) == p

\* delete internals.pendings[cachekey]
PendingsDelete(p, key) == { e \in p : e[1] # key }

\* --------------------------------------------- lib/directory.js (pure)
\* Mutant: only a '.' at the start of the path is looked for.
IsFileHiddenAtStart(path) == Len(path) > 1 /\ path[1] = "."

\* internals.isFileHidden: the path starts with a '.' or holds a '/.' or
\* '\.', and that '.' is followed by a character other than '.', '/' and
\* '\', or by a '.' and then a character other than '/' and '\'.
IsSeparator(c) == c = "/" \/ c = "\\"

IsFileHidden(path) ==
    \E i \in 1..Len(path) :
        /\ i = 1 \/ IsSeparator(path[i - 1])
        /\ path[i] = "."
        /\ i + 1 <= Len(path)
        /\ \/ path[i + 1] # "." /\ ~IsSeparator(path[i + 1])
           \/ path[i + 1] = "." /\ i + 2 <= Len(path) /\ ~IsSeparator(path[i + 2])

\* normalize (in exports.handler): every configured base directory made
\* absolute against the route's files.relativeTo.
RECURSIVE NormalizePaths(_)
NormalizePaths(paths) ==
    IF paths = <<>> THEN <<>>
    ELSE <<IF IsAbsolute(Head(paths)) THEN Head(paths) ELSE Join(RelativeTo, Head(paths))>>
         \o NormalizePaths(Tail(paths))

\* settings.index: `default` stands for true (['index.html'], here the
\* one-letter name i), no names for false, the configured names otherwise.
IndexHtml == <<"i">>
Index(default, names) == [default |-> default, names |-> names]
IndexNames(index) == IF index.default THEN <<IndexHtml>> ELSE index.names

\* File.load(path, request, { confine }): exports.response followed by
\* internals.prepare.  The set of results the filesystem allows: NoErr when
\* the file was opened and stat'ed, the Boom error otherwise.
FileLoad(path, confine) ==
    LET p == ResponsePath(path, confine)
    IN IF p = NullPath THEN { Err("Forbidden", "EACCES", "", <<>>) }
       ELSE UNION { IF code # "ok" THEN { OpenStatOpenError(p, code) }
                    ELSE { OpenStatStatError(res, FsKind(p) = "dir") : res \in FstatOutcomes } :
                    code \in FsOpenOutcomes(p) }

\* error.output.statusCode === 404
IsNotFound(e) == e.kind = "NotFound"
\* error.output.statusCode === 403 && error.data === 'EISDIR'
IsDirectory(e) == e.kind = "Forbidden" /\ e.code = "EISDIR"

\* What the handler hands back: a loaded file, a redirect, a listing, or
\* the error it threw.
DirResult(kind, e, path, dir) == [kind |-> kind, err |-> e, path |-> path, dir |-> dir]
NoDirResult == DirResult("none", NoErr, <<>>, <<>>)
DirError(e) == DirResult("error", e, <<>>, <<>>)

\* The handler's settings and the request it serves.  pathFn tells what
\* settings.path is: "none" for a configured array, otherwise a function and
\* what it returned ("array", "string", "error", "invalid").
DirRequest(pathFn, paths, pathErr, selection, hasTrailingSlash, index, listing, showHidden, redirectToSlash, stripTrailingSlash, defaultExtension) ==
    [pathFn |-> pathFn, paths |-> paths, pathErr |-> pathErr, selection |-> selection,
     hasTrailingSlash |-> hasTrailingSlash, index |-> index, listing |-> listing,
     showHidden |-> showHidden, redirectToSlash |-> redirectToSlash,
     stripTrailingSlash |-> stripTrailingSlash, defaultExtension |-> defaultExtension]
NoDirRequest ==
    DirRequest("none", <<>>, NoErr, <<>>, FALSE, Index(FALSE, <<>>), FALSE, FALSE, TRUE, FALSE, <<>>)

\* paths, as the handler computes it from settings.path
Paths(q) == NormalizePaths(q.paths)

\* One File.load made by the handler: the candidate base directory, the
\* path loaded, what it was loaded as, and the result.
Loaded(dir, path, as, res) == [dir |-> dir, path |-> path, as |-> as, res |-> res]

\* ================================================================ state
Reqs == 1..NumReqs
FdIds == 1..(2 * NumReqs + MaxOpens)

VARIABLES
    pc,         \* per request: where its pipeline stands
    inPath,     \* per request: the path given to exports.response
    inConfine,  \* per request: options.confine (<<>> when false)
    srcPath,    \* per request: response.source.path
    srcFd,      \* per request: response.source.fd (Null when none)
    opFd,       \* per request: the fd local to a pending internals.openStat
    err,        \* per request: the error handed to the caller
    etag,       \* per request: the ETag set on the response
    why,        \* per request: why the host disposed of the response
    waitOn,     \* per request: the initiator whose promise it awaits or awaited
    promise,    \* per initiator: the compute() promise it created
    pendings,   \* internals.pendings: pairs <<cachekey, initiator>>
    etagsOn,    \* whether server.plugins.inert._etags is a cache (not null)
    etagMethod, \* per request: settings.etagMethod as Etag.apply read it
    srcStat,    \* per request: the stat prepare obtained
    disk,       \* the version of /d/x on disk
    log,        \* history: the cache keys computed, each with the path and stat it was made from
    request,    \* per request: what marshal read of the request and the route
    response,   \* per request: status, headers and stream options of the response
    etags,      \* the LRU cache's entries
    fds,        \* descriptor table: state, path, close calls, who closed
    streams,    \* the read streams that are alive
    sysOpens,   \* paths on which an open reached the filesystem
    file,       \* SpecFile: the File handle {path, fd}
    fpc,        \* SpecFile: the handle's pending asynchronous call
    fres,       \* SpecFile: what the last call returned or threw
    fraw,       \* SpecFile: how the last exports.open / exports.fstat settled
    fopens,     \* SpecFile: number of descriptors the handle has opened
    lastOp,     \* SpecFile: the last call made on the handle
    dreq,       \* SpecDir: the directory handler's settings and the request it serves
    dpc,        \* SpecDir: where the handler stands
    di,         \* SpecDir: the candidate base directory being tried (index into paths)
    dj,         \* SpecDir: the index name being tried (index into indexNames)
    dres,       \* SpecDir: what the handler returned or threw
    dlog,       \* SpecDir history: the File.load calls made, in order, with their results
    via,        \* per request: "load" while exports.load made and prepares the response,
                \* "host" once the host has it, "" for a response made by exports.response
    calls       \* history, per request: the number of Fs.open and of Fs.fstat calls made

reqVars == <<pc, inPath, inConfine, srcPath, srcFd, opFd, err, etag, why, waitOn>>
etagVars == <<promise, pendings, etagsOn, etags>>
identVars == <<etagMethod, srcStat, disk, log>>
httpVars == <<request, response>>
fileVars == <<file, fpc, fres, fraw, fopens, lastOp>>
dirVars == <<dreq, dpc, di, dj, dres, dlog>>
loadVars == <<via, calls>>
vars == <<pc, inPath, inConfine, srcPath, srcFd, opFd, err, etag, why, waitOn, promise, pendings,
          etagsOn, etags, fds, streams, sysOpens, file, fpc, fres, fraw, fopens, lastOp,
          etagMethod, srcStat, disk, log, request, response, dreq, dpc, di, dj, dres, dlog,
          via, calls>>

\* Fs.fstat: inode, size and mtime of the file as it is on disk now.
StatOf(path) ==
    IF path = Modifiable THEN [ino |-> disk.ino, size |-> disk.size, mtime |-> disk.mtime]
    ELSE IF path = <<"/", "d", "/", "y">> THEN [ino |-> 2, size |-> 4, mtime |-> 7]
    ELSE IF path = <<"/", "d", "/", "o">> THEN [ino |-> 4, size |-> 0, mtime |-> 9]
    ELSE [ino |-> 3, size |-> 2, mtime |-> 5000]

\* sha1 of the file's content as it is on disk now, hex encoded: one token
\* per content.
Sha1(path) == IF path = Modifiable THEN <<"sha1">> \o path \o <<disk.rev>> ELSE <<"sha1">> \o path

\* The descriptor a successful open returns.  A descriptor is named after
\* the open that produced it, so that closes can be counted per open.
FdOf(r, slot) == IF slot = "file" THEN 2 * r - 1 ELSE 2 * r
FileFd(n) == 2 * NumReqs + n

FreeFd == [state |-> "free", path |-> NoPath, closes |-> 0, by |-> {}]
FdOpened(t, d, path) == [t EXCEPT ![d] = [state |-> "open", path |-> path, closes |-> 0, by |-> {}]]
\* Fs.close(fd): issued by a handle ("handle") or by a stream's autoClose ("stream").
FdClosed(t, d, who) ==
    [t EXCEPT ![d] = [state |-> "closed", path |-> @.path, closes |-> @.closes + 1,
                      by |-> @.by \cup {who}]]

\* Mutant: openStat hands on a stat failure without closing the descriptor.
OpenStatCloseLeak(t, d) == t

\* internals.openStat: Fs.close(fd, Hoek.ignore) when fstat failed or found
\* a directory
OpenStatClose(t, d) == FdClosed(t, d, "handle")

NoCalls == [open |-> 0, stat |-> 0]

NoPromise == [state |-> "none", key |-> <<>>, val |-> NoEtag, err |-> NoErr]

InitShared ==
    /\ pc = [r \in Reqs |-> "idle"]
    /\ inPath = [r \in Reqs |-> NoPath]
    /\ inConfine = [r \in Reqs |-> <<>>]
    /\ srcPath = [r \in Reqs |-> NoPath]
    /\ srcFd = [r \in Reqs |-> Null]
    /\ opFd = [r \in Reqs |-> Null]
    /\ err = [r \in Reqs |-> NoErr]
    /\ etag = [r \in Reqs |-> NoEtag]
    /\ why = [r \in Reqs |-> ""]
    /\ waitOn = [r \in Reqs |-> Null]
    /\ promise = [r \in Reqs |-> NoPromise]
    /\ pendings = {}
    /\ etags = <<>>
    /\ fds = [d \in FdIds |-> FreeFd]
    /\ streams = {}
    /\ sysOpens = {}
    /\ file = [path |-> NoPath, fd |-> Null]
    /\ fpc = "new"
    /\ fres = NoErr
    /\ fraw = ""
    /\ fopens = 0
    /\ lastOp = ""
    /\ etagMethod = [r \in Reqs |-> ""]
    /\ srcStat = [r \in Reqs |-> NoStat]
    /\ disk = VersionA
    /\ log = {}
    /\ request = [r \in Reqs |-> NoRequest]
    /\ response = [r \in Reqs |-> NewResponse]
    /\ dreq = NoDirRequest
    /\ dpc = "idle"
    /\ di = 0
    /\ dj = 0
    /\ dres = NoDirResult
    /\ dlog = <<>>
    /\ via = [r \in Reqs |-> ""]
    /\ calls = [r \in Reqs |-> NoCalls]

\* exports.plugin.register: _etags is a cache when etagsCacheMaxSize > 0.
Init == InitShared /\ etagsOn \in BOOLEAN

\* ====================================================== request pipeline
EtagMethods == { "hash", "simple", "off" }
RangeResults == { "none", "single", "unsat" }
DiscardReasons == { "304", "error", "abort" }

\* Mutant: the close hook forgets to call Fs.close.
InternalsCloseLeak(t, fd) == t

\* internals.close(response): the descriptor table after it ran.
InternalsClose(t, fd) == IF fd # Null THEN FdClosed(t, fd, "handle") ELSE t

\* Mutant: the handle gives its descriptor to every stream it creates.
FdAfterCreateReadStreamGiven(fd, autoClose) == Null

\* File.prototype.createReadStream: the handle's fd once the stream exists.
FdAfterCreateReadStream(fd, autoClose) == IF autoClose THEN Null ELSE fd

Stream(fd, autoClose, kind, r) == [fd |-> fd, autoClose |-> autoClose, kind |-> kind, req |-> r]

\* exports.response (the handler or reply.file(), called by the host)
Response(r, paths, confines) ==
    /\ pc[r] = "idle"
    /\ \E path \in paths, confine \in confines :
          /\ inPath' = [inPath EXCEPT ![r] = path]
          /\ inConfine' = [inConfine EXCEPT ![r] = confine]
          /\ srcPath' = [srcPath EXCEPT ![r] = ResponsePath(path, confine)]
    /\ pc' = [pc EXCEPT ![r] = "created"]
    /\ UNCHANGED <<srcFd, opFd, err, etag, why, waitOn, etagVars, fds, streams, sysOpens, fileVars, dirVars, loadVars, identVars, httpVars>>

\* Mutant: a response made by exports.load keeps its prepare hook.
PrepareHookAlways(preloaded) == TRUE

\* exports.response: prepare = _preloaded ? null : internals.prepare
PrepareHook(preloaded) == ~preloaded

\* The host has the response: it was made by exports.response, or exports.load
\* has handed it on.
Received(r) == via[r] # "load"

\* exports.load: exports.response(path, options, request, true) and
\* internals.prepare up to its first suspension
Load(r, paths, confines) ==
    /\ pc[r] = "idle"
    /\ \E path \in paths, confine \in confines :
          /\ inPath' = [inPath EXCEPT ![r] = path]
          /\ inConfine' = [inConfine EXCEPT ![r] = confine]
          /\ srcPath' = [srcPath EXCEPT ![r] = ResponsePath(path, confine)]
          /\ pc' = [pc EXCEPT ![r] = IF ResponsePath(path, confine) = NullPath THEN "tick" ELSE "opening"]
    /\ via' = [via EXCEPT ![r] = "load"]
    /\ UNCHANGED <<srcFd, opFd, err, etag, why, waitOn, etagVars, fds, streams, sysOpens, fileVars, dirVars,
                   calls, identVars, httpVars>>

\* The host is handed the response exports.load has prepared and calls its
\* prepare hook, if it has one.
HostReceive(r) ==
    /\ pc[r] = "prepared"
    /\ via[r] = "load"
    /\ via' = [via EXCEPT ![r] = "host"]
    /\ pc' = [pc EXCEPT ![r] = IF PrepareHook(TRUE)
                               THEN IF srcPath[r] = NullPath THEN "tick" ELSE "opening"
                               ELSE @]
    /\ UNCHANGED <<inPath, inConfine, srcPath, srcFd, opFd, err, etag, why, waitOn, etagVars, fds, streams,
                   sysOpens, fileVars, dirVars, calls, identVars, httpVars>>

\* internals.prepare, called by the host through the response's prepare
\* hook, up to its first suspension
Prepare(r) ==
    /\ pc[r] = "created"
    /\ PrepareHook(FALSE)
    /\ pc' = [pc EXCEPT ![r] = IF srcPath[r] = NullPath THEN "tick" ELSE "opening"]
    /\ UNCHANGED <<inPath, inConfine, srcPath, srcFd, opFd, err, etag, why, waitOn, etagVars, fds, streams,
                   sysOpens, fileVars, dirVars, loadVars, identVars, httpVars>>

\* internals.prepare: the process.nextTick callback of a null path
PrepareForbidden(r) ==
    /\ pc[r] = "tick"
    /\ err' = [err EXCEPT ![r] = Err("Forbidden", "EACCES", "", <<>>)]
    /\ pc' = [pc EXCEPT ![r] = "failed"]
    /\ UNCHANGED <<inPath, inConfine, srcPath, srcFd, opFd, etag, why, waitOn, etagVars, fds, streams,
                   sysOpens, fileVars, dirVars, loadVars, identVars, httpVars>>

\* internals.openStat: the Fs.open callback (called from prepare)
OpenDone(r) ==
    /\ pc[r] = "opening"
    /\ calls' = [calls EXCEPT ![r].open = @ + 1]
    /\ \E res \in FsOpenOutcomes(srcPath[r]) :
          LET path == srcPath[r]
              d == FdOf(r, "file")
          IN /\ sysOpens' = IF ReachesFilesystem(path) THEN sysOpens \cup {path} ELSE sysOpens
             /\ IF res = "ok"
                THEN /\ fds' = FdOpened(fds, d, path)
                     /\ opFd' = [opFd EXCEPT ![r] = d]
                     /\ pc' = [pc EXCEPT ![r] = "stating"]
                     /\ UNCHANGED err
                ELSE /\ err' = [err EXCEPT ![r] = OpenStatOpenError(path, res)]
                     /\ pc' = [pc EXCEPT ![r] = "failed"]
                     /\ UNCHANGED <<fds, opFd>>
    /\ UNCHANGED <<inPath, inConfine, srcPath, srcFd, etag, why, waitOn, etagVars, streams, fileVars, dirVars, via, identVars, httpVars>>

\* exports.apply with internals.computeSimple / computeHashed / hashFile,
\* up to the first suspension: the etag is set at once, or the request joins
\* the pending computation, or it registers a new one and starts hashing.
EtagApply(r, method, path, stat, fd) ==
    LET key == CacheKey(path, stat)
        hashed == HashApplies(method, etagsOn)
        hit == hashed /\ CacheHas(etags, key)
        joined == hashed /\ ~hit /\ PendingsGet(pendings, key) # Null
        started == hashed /\ ~hit /\ ~joined
    IN /\ etag' = [etag EXCEPT ![r] = IF method = "simple" THEN ComputeSimple(stat)
                                      ELSE IF hit THEN CacheValue(etags, key)
                                      ELSE @]
       /\ etags' = IF hit THEN CacheGet(etags, key) ELSE etags
       /\ waitOn' = [waitOn EXCEPT ![r] = IF joined THEN PendingsGet(pendings, key)
                                          ELSE IF started THEN r ELSE @]
       /\ promise' = IF started
                     THEN [promise EXCEPT ![r] = [state |-> "pending", key |-> key,
                                                  val |-> NoEtag, err |-> NoErr]]
                     ELSE promise
       /\ pendings' = IF started THEN PendingsSet(pendings, key, r) ELSE pendings
       /\ streams' = IF started THEN streams \cup {Stream(fd, FALSE, "hash", r)} ELSE streams
       /\ srcFd' = [srcFd EXCEPT ![r] = IF started THEN FdAfterCreateReadStream(fd, FALSE) ELSE fd]
       /\ pc' = [pc EXCEPT ![r] = IF joined THEN "awaiting"
                                  ELSE IF started THEN "hashing" ELSE "prepared"]
       /\ log' = IF hashed THEN log \cup {<<key, path, stat>>} ELSE log

\* internals.openStat: the Fs.fstat callback, and on success the rest of
\* internals.prepare through Etag.apply
StatDone(r) ==
    /\ pc[r] = "stating"
    /\ calls' = [calls EXCEPT ![r].stat = @ + 1]
    /\ \E res \in FstatOutcomes, method \in EtagMethods :
          LET path == srcPath[r]
              d == opFd[r]
              e == OpenStatStatError(res, FsKind(path) = "dir")
          IN IF e # NoErr
             THEN /\ fds' = OpenStatClose(fds, d)
                  /\ err' = [err EXCEPT ![r] = e]
                  /\ pc' = [pc EXCEPT ![r] = "failed"]
                  /\ UNCHANGED <<srcFd, etag, waitOn, promise, pendings, etags, streams,
                                 etagMethod, srcStat, log, response>>
             ELSE /\ EtagApply(r, method, path, StatOf(path), d)
                  /\ etagMethod' = [etagMethod EXCEPT ![r] = method]
                  /\ srcStat' = [srcStat EXCEPT ![r] = StatOf(path)]
                  /\ response' = [response EXCEPT ![r].length = StatOf(path).size,
                                                   ![r].lastModified = ToUTCString(StatOf(path).mtime)]
                  /\ UNCHANGED <<fds, err>>
    /\ opFd' = [opFd EXCEPT ![r] = Null]
    /\ UNCHANGED <<inPath, inConfine, srcPath, why, etagsOn, sysOpens, fileVars, dirVars, via, disk, request>>

\* Mutant: the hash is stored whether or not hashing succeeded.
EtagsSetReachedAlways(ok) == TRUE

\* compute: etags.set(cachekey, hash) follows `await internals.hashFile` in
\* the try block and runs only when that did not throw.
EtagsSetReached(ok) == ok

\* internals.hashFile / compute: the hash stream ended or failed.  The hash
\* is cached on success, the pending entry is deleted in either case, and
\* the promise settles; its awaiters resume in later turns.
HashDone(r) ==
    /\ pc[r] = "hashing"
    /\ \E ok \in BOOLEAN :
          LET key == promise[r].key
              path == srcPath[r]
          IN /\ promise' = [promise EXCEPT ![r] =
                   IF ok THEN [state |-> "fulfilled", key |-> key, val |-> Sha1(path), err |-> NoErr]
                   ELSE [state |-> "rejected", key |-> key, val |-> NoEtag,
                         err |-> Err("Internal", "EIO", "Failed to hash file", path)]]
             /\ etags' = IF EtagsSetReached(ok) THEN CacheSet(etags, key, Sha1(path)) ELSE etags
             /\ pendings' = PendingsDelete(pendings, key)
    /\ streams' = { s \in streams : ~(s.req = r /\ s.kind = "hash") }
    /\ pc' = [pc EXCEPT ![r] = "awaiting"]
    /\ UNCHANGED <<inPath, inConfine, srcPath, srcFd, opFd, err, etag, why, waitOn, etagsOn, fds, sysOpens,
                   fileVars, dirVars, loadVars, identVars, httpVars>>

\* Mutant: a joiner is resumed as if the computation had succeeded.
AwaitedJoinerOk(p, w, r) == IF w = r THEN p[w] ELSE [p[w] EXCEPT !.state = "fulfilled"]

\* `await promise`: the settled promise of initiator w as awaiter r sees it.
Awaited(p, w, r) == p[w]

\* `await promise` in internals.computeHashed resumes, then exports.apply and
\* the Etag.apply callback of internals.prepare run
Resume(r) ==
    /\ pc[r] = "awaiting"
    /\ promise[waitOn[r]].state # "pending"
    /\ LET p == Awaited(promise, waitOn[r], r)
       IN IF p.state = "fulfilled"
          THEN /\ etag' = [etag EXCEPT ![r] = p.val]
               /\ pc' = [pc EXCEPT ![r] = "prepared"]
               /\ UNCHANGED <<fds, srcFd, err>>
          ELSE /\ fds' = InternalsClose(fds, srcFd[r])
               /\ srcFd' = [srcFd EXCEPT ![r] = Null]
               /\ err' = [err EXCEPT ![r] = p.err]
               /\ pc' = [pc EXCEPT ![r] = "failed"]
               /\ UNCHANGED etag
    /\ UNCHANGED <<inPath, inConfine, srcPath, opFd, why, waitOn, etagVars, streams, sysOpens,
                   fileVars, dirVars, loadVars, identVars, httpVars>>

\* Mutant: the stream is created but the descriptor is not claimed.
OpenStreamKeepFd(r, fd, q, hdr) ==
    IF fd = Null \/ AddContentRange(q, hdr.length, EtagHeader(etag[r]), hdr.encoding).kind = "unsat"
    THEN /\ err' = [err EXCEPT ![r] = Err("NotSatisfiable", "", "", <<>>)]
         /\ pc' = [pc EXCEPT ![r] = "marshalFailed"]
         /\ srcFd' = [srcFd EXCEPT ![r] = fd]
         /\ response' = [response EXCEPT ![r] = hdr]
         /\ UNCHANGED streams
    ELSE /\ streams' = streams \cup {Stream(fd, TRUE, "body", r)}
         /\ srcFd' = [srcFd EXCEPT ![r] = fd]
         /\ response' = [response EXCEPT ![r] = hdr]
         /\ pc' = [pc EXCEPT ![r] = "streaming"]
         /\ UNCHANGED err

\* internals.openStream with internals.addContentRange, for the request
\* inputs q and the response headers hdr as marshal left them.  Sets pc,
\* err, srcFd, streams and response.
OpenStream(r, fd, q, hdr) ==
    LET range == AddContentRange(q, hdr.length, EtagHeader(etag[r]), hdr.encoding)
    IN IF fd = Null
       THEN /\ err' = [err EXCEPT ![r] = Err("AssertionError", "", "file descriptor must be set", <<>>)]
            /\ pc' = [pc EXCEPT ![r] = "marshalFailed"]
            /\ srcFd' = [srcFd EXCEPT ![r] = fd]
            /\ response' = [response EXCEPT ![r] = hdr]
            /\ UNCHANGED streams
       ELSE IF range.kind = "unsat"
       THEN /\ err' = [err EXCEPT ![r] = Err("NotSatisfiable", "", "", <<>>)]
            /\ pc' = [pc EXCEPT ![r] = "marshalFailed"]
            /\ srcFd' = [srcFd EXCEPT ![r] = fd]
            /\ response' = [response EXCEPT ![r] =
                  [hdr EXCEPT !.errContentRange = ContentRangeUnsatisfied(hdr.length),
                              !.acceptRanges = range.accept]]
            /\ UNCHANGED streams
       ELSE /\ streams' = streams \cup {Stream(fd, TRUE, "body", r)}
            /\ srcFd' = [srcFd EXCEPT ![r] = Null]
            /\ response' = [response EXCEPT ![r] =
                  IF range.kind = "single"
                  THEN [hdr EXCEPT !.code = 206,
                                   !.length = range.to - range.from + 1,
                                   !.contentRange = ContentRange(range.from, range.to, hdr.length),
                                   !.acceptRanges = range.accept,
                                   !.start = range.from,
                                   !.end = range.to]
                  ELSE [hdr EXCEPT !.acceptRanges = range.accept, !.start = 0]]
            /\ pc' = [pc EXCEPT ![r] = "streaming"]
            /\ UNCHANGED err

\* internals.marshal, up to its first suspension
Marshal(r, reqs) ==
    /\ pc[r] = "prepared"
    /\ Received(r)
    /\ \E q \in reqs :
          /\ request' = [request EXCEPT ![r] = q]
          /\ IF LookupCompressed(q)
             THEN /\ pc' = [pc EXCEPT ![r] = "gzOpening"]
                  /\ UNCHANGED <<err, srcFd, streams, response>>
             ELSE OpenStream(r, srcFd[r], q, response[r])
    /\ UNCHANGED <<inPath, inConfine, srcPath, opFd, etag, why, waitOn, etagVars, fds, sysOpens, fileVars, dirVars, loadVars,
                   identVars>>

\* internals.openStat: the Fs.open callback (called from marshal for the
\* '.gz' sibling); a failure falls back to the primary file
GzOpenDone(r) ==
    /\ pc[r] = "gzOpening"
    /\ calls' = [calls EXCEPT ![r].open = @ + 1]
    /\ \E res \in FsOpenOutcomes(srcPath[r] \o GzSuffix) :
          LET gzFile == srcPath[r] \o GzSuffix
              d == FdOf(r, "gz")
          IN /\ sysOpens' = IF ReachesFilesystem(gzFile) THEN sysOpens \cup {gzFile} ELSE sysOpens
             /\ IF res = "ok"
                THEN /\ fds' = FdOpened(fds, d, gzFile)
                     /\ opFd' = [opFd EXCEPT ![r] = d]
                     /\ pc' = [pc EXCEPT ![r] = "gzStating"]
                     /\ UNCHANGED <<err, srcFd, streams, response>>
                ELSE /\ OpenStream(r, srcFd[r], request[r], response[r])
                     /\ UNCHANGED <<fds, opFd>>
    /\ UNCHANGED <<inPath, inConfine, srcPath, etag, why, waitOn, etagVars, fileVars, dirVars, via, identVars, request>>

\* internals.openStat: the Fs.fstat callback for the sibling, then the rest
\* of internals.marshal
GzStatDone(r) ==
    /\ pc[r] = "gzStating"
    /\ calls' = [calls EXCEPT ![r].stat = @ + 1]
    /\ \E res \in FstatOutcomes :
          LET gzFile == srcPath[r] \o GzSuffix
              d == opFd[r]
              e == OpenStatStatError(res, FsKind(gzFile) = "dir")
          IN IF e # NoErr
             THEN /\ fds' = OpenStatClose(fds, d)
                  /\ OpenStream(r, srcFd[r], request[r], response[r])
             ELSE /\ fds' = InternalsClose(fds, srcFd[r])
                  /\ OpenStream(r, d, request[r], Substituted(response[r], StatOf(gzFile)))
    /\ opFd' = [opFd EXCEPT ![r] = Null]
    /\ UNCHANGED <<inPath, inConfine, srcPath, etag, why, waitOn, etagVars, sysOpens, fileVars, dirVars, via, identVars,
                   request>>

\* The body stream ends, fails or is destroyed: an autoClose stream closes
\* the descriptor it was given.
StreamClose(r) ==
    /\ pc[r] = "streaming"
    /\ LET s == CHOOSE s \in streams : s.req = r /\ s.kind = "body"
       IN /\ fds' = IF s.autoClose THEN FdClosed(fds, s.fd, "stream") ELSE fds
          /\ streams' = streams \ {s}
    /\ pc' = [pc EXCEPT ![r] = "sent"]
    /\ UNCHANGED <<inPath, inConfine, srcPath, srcFd, opFd, err, etag, why, waitOn, etagVars, sysOpens, fileVars, dirVars, loadVars, identVars, httpVars>>

\* internals.close, the response's close hook, when the host finalizes a
\* response that was marshalled
HostClose(r) ==
    /\ pc[r] \in {"marshalFailed", "sent"}
    /\ fds' = InternalsClose(fds, srcFd[r])
    /\ srcFd' = [srcFd EXCEPT ![r] = Null]
    /\ pc' = [pc EXCEPT ![r] = "done"]
    /\ UNCHANGED <<inPath, inConfine, srcPath, opFd, err, etag, why, waitOn, etagVars, streams, sysOpens, fileVars, dirVars, loadVars, identVars, httpVars>>

\* internals.close, the response's close hook, when the host disposes of a
\* prepared response without marshalling it: a 304, a later stage that
\* failed and replaced the response, or an aborted request
HostDiscard(r) ==
    /\ pc[r] = "prepared"
    /\ Received(r)
    /\ \E w \in DiscardReasons : why' = [why EXCEPT ![r] = w]
    /\ fds' = InternalsClose(fds, srcFd[r])
    /\ srcFd' = [srcFd EXCEPT ![r] = Null]
    /\ pc' = [pc EXCEPT ![r] = "done"]
    /\ UNCHANGED <<inPath, inConfine, srcPath, opFd, err, etag, waitOn, etagVars, streams, sysOpens, fileVars, dirVars, loadVars, identVars, httpVars>>

\* The requests of Spec: a plain one, one with the invalid Range header
\* 'bytes=-', and one that has the precompressed sibling looked up.
SpecRequests ==
    { Request(FALSE, FALSE, "", FALSE, TRUE, NoHeader, NoHeader),
      Request(FALSE, FALSE, "", FALSE, TRUE, RangeHeader("bytes", "=", <<RangeSpec(None, None)>>), NoHeader),
      Request(TRUE, TRUE, "gzip", FALSE, TRUE, NoHeader, NoHeader) }

Next ==
    \E r \in Reqs :
        \/ Response(r, SpecPaths, {<<".">>})
        \/ Prepare(r)
        \/ PrepareForbidden(r)
        \/ OpenDone(r)
        \/ StatDone(r)
        \/ HashDone(r)
        \/ Resume(r)
        \/ Marshal(r, SpecRequests)
        \/ GzOpenDone(r)
        \/ GzStatDone(r)
        \/ StreamClose(r)
        \/ HostClose(r)
        \/ HostDiscard(r)

Spec == Init /\ [][Next]_vars

\* One request, any logical path, confined or not.
NextConfine ==
    \/ Response(1, LogicalPaths, ConfineOptions)
    \/ Prepare(1)
    \/ PrepareForbidden(1)
    \/ OpenDone(1)
    \/ StatDone(1)
    \/ HashDone(1)
    \/ Resume(1)
    \/ Marshal(1, SpecRequests)
    \/ GzOpenDone(1)
    \/ GzStatDone(1)
    \/ StreamClose(1)
    \/ HostClose(1)
    \/ HostDiscard(1)

SpecConfine == Init /\ [][NextConfine]_vars

\* Sequential requests for a file that changes on disk at any time: one
\* request slot is reused, as by the tests that inject one request after
\* another, and the host disposes of every prepared response (a HEAD or a
\* conditional request).
EtagPaths == { <<"x">> }

\* The file is rewritten or touched (Fs.writeFileSync, Fs.utimesSync, ...).
Modify ==
    /\ \E v \in Versions \ {disk} : disk' = v
    /\ UNCHANGED <<reqVars, etagVars, fds, streams, sysOpens, fileVars, dirVars, loadVars, etagMethod, srcStat, log,
                   httpVars>>

\* The host is done with a request and a new one arrives.
NextRequest(r) ==
    /\ pc[r] \in {"done", "failed"}
    /\ pc' = [pc EXCEPT ![r] = "idle"]
    /\ inPath' = [inPath EXCEPT ![r] = NoPath]
    /\ inConfine' = [inConfine EXCEPT ![r] = <<>>]
    /\ srcPath' = [srcPath EXCEPT ![r] = NoPath]
    /\ srcFd' = [srcFd EXCEPT ![r] = Null]
    /\ opFd' = [opFd EXCEPT ![r] = Null]
    /\ err' = [err EXCEPT ![r] = NoErr]
    /\ etag' = [etag EXCEPT ![r] = NoEtag]
    /\ why' = [why EXCEPT ![r] = ""]
    /\ waitOn' = [waitOn EXCEPT ![r] = Null]
    /\ promise' = [promise EXCEPT ![r] = NoPromise]
    /\ etagMethod' = [etagMethod EXCEPT ![r] = ""]
    /\ srcStat' = [srcStat EXCEPT ![r] = NoStat]
    /\ request' = [request EXCEPT ![r] = NoRequest]
    /\ response' = [response EXCEPT ![r] = NewResponse]
    /\ via' = [via EXCEPT ![r] = ""]
    /\ calls' = [calls EXCEPT ![r] = NoCalls]
    /\ UNCHANGED <<pendings, etagsOn, etags, fds, streams, sysOpens, fileVars, dirVars, disk, log>>

NextEtag ==
    \/ Response(1, EtagPaths, {<<".">>})
    \/ Prepare(1)
    \/ OpenDone(1)
    \/ StatDone(1)
    \/ HashDone(1)
    \/ Resume(1)
    \/ HostDiscard(1)
    \/ Modify
    \/ NextRequest(1)

SpecEtag == Init /\ [][NextEtag]_vars

\* ---- One request for the 4-byte file x (its sibling x.gz holds 2 bytes),
\* ---- the 4-byte file y (without a sibling) or the empty file o (whose
\* ---- sibling name o.gz is a directory), with every kind of Range header.
RangePaths == { <<"x">>, <<"y">>, <<"o">> }

\* An onPreResponse extension of the host deletes the content-length header
\* of the prepared response.
ExtDropLength(r) ==
    /\ pc[r] = "prepared"
    /\ Received(r)
    /\ response[r].length # NoLength
    /\ response' = [response EXCEPT ![r].length = NoLength]
    /\ UNCHANGED <<reqVars, etagVars, identVars, request, fds, streams, sysOpens, fileVars, dirVars, loadVars>>

\* Range headers: 'bytes=0-1', 'bytes=1-5' (beyond the end), 'bytes=3-' (the
\* last byte), 'bytes=-2', 'bytes=-6' (a suffix longer than the file),
\* 'bytes=3-1', 'horses=1-2', 'bytes 1-2', 'bytes=-', 'bytes=4-', 'bytes=4-9',
\* 'bytes=0-0,2-3', 'bytes=0-1,2-3', or none.
RangeHeaders ==
    { RangeHeader("bytes", "=", <<RangeSpec(0, 1)>>),
      RangeHeader("bytes", "=", <<RangeSpec(1, 5)>>),
      RangeHeader("bytes", "=", <<RangeSpec(3, None)>>),
      RangeHeader("bytes", "=", <<RangeSpec(None, 2)>>),
      RangeHeader("bytes", "=", <<RangeSpec(None, 6)>>),
      RangeHeader("bytes", "=", <<RangeSpec(3, 1)>>),
      RangeHeader("horses", "=", <<RangeSpec(1, 2)>>),
      RangeHeader("bytes", " ", <<RangeSpec(1, 2)>>),
      RangeHeader("bytes", "=", <<RangeSpec(None, None)>>),
      RangeHeader("bytes", "=", <<RangeSpec(4, None)>>),
      RangeHeader("bytes", "=", <<RangeSpec(4, 9)>>),
      RangeHeader("bytes", "=", <<RangeSpec(0, 0), RangeSpec(2, 3)>>),
      RangeHeader("bytes", "=", <<RangeSpec(0, 1), RangeSpec(2, 3)>>),
      NoHeader }

\* If-Range headers: none, a validator that matches nothing, or the ETag
\* the client holds when it is the current one.
IfRangeHeaders(etagHeader) == { NoHeader, <<"\"", "z", "\"">>, etagHeader }

AcceptEncodings == { "", "identity", "gzip" }

RangeRequests(etagHeader) ==
    { Request(lc, cn, ae, cb, rs, rg, ir) :
        lc \in BOOLEAN, cn \in BOOLEAN, ae \in AcceptEncodings, cb \in BOOLEAN, rs \in BOOLEAN,
        rg \in RangeHeaders, ir \in IfRangeHeaders(etagHeader) }

NextRange ==
    \/ Response(1, RangePaths, {<<".">>})
    \/ Prepare(1)
    \/ OpenDone(1)
    \/ StatDone(1)
    \/ HashDone(1)
    \/ Resume(1)
    \/ ExtDropLength(1)
    \/ Marshal(1, RangeRequests(EtagHeader(etag[1])))
    \/ GzOpenDone(1)
    \/ GzStatDone(1)
    \/ StreamClose(1)
    \/ HostClose(1)
    \/ HostDiscard(1)

SpecRange == Init /\ [][NextRange]_vars

\* ---- One request served by a handler that returns exports.response's
\* ---- result, or by one that awaits exports.load (the directory handler).
NextLoad ==
    \/ Response(1, SpecPaths, {<<".">>})
    \/ Prepare(1)
    \/ Load(1, SpecPaths, {<<".">>})
    \/ HostReceive(1)
    \/ PrepareForbidden(1)
    \/ OpenDone(1)
    \/ StatDone(1)
    \/ HashDone(1)
    \/ Resume(1)
    \/ Marshal(1, SpecRequests)
    \/ GzOpenDone(1)
    \/ GzStatDone(1)
    \/ StreamClose(1)
    \/ HostClose(1)
    \/ HostDiscard(1)

SpecLoad == Init /\ [][NextLoad]_vars

\* ========================================================== lib/fs.js File
\* The caller makes one call at a time and awaits it.
AssertionError == Err("AssertionError", "", "", <<>>)
otherVars == <<reqVars, etagVars, identVars, httpVars, dirVars, loadVars>>

\* Mutant: close() drops the descriptor without closing it.
FileCloseFdsLeak(t, fd) == t
\* Mutant: close() does not reset this.fd.
FileCloseFdKeep(fd) == fd

\* File.prototype.close: the descriptor table and this.fd after it ran.
FileCloseFds(t, fd) == IF fd # Null THEN FdClosed(t, fd, "handle") ELSE t
FileCloseFd(fd) == Null

\* new File(path)
FileNew ==
    /\ fpc = "new"
    /\ \E path \in FilePaths : file' = [path |-> path, fd |-> Null]
    /\ fpc' = "ready"
    /\ lastOp' = "new"
    /\ UNCHANGED <<otherVars, fds, streams, sysOpens, fres, fraw, fopens>>

\* File.prototype.open, up to `await exports.open`
FileOpen ==
    /\ fpc = "ready"
    /\ fopens < MaxOpens
    /\ lastOp' = "open"
    /\ IF file.fd # Null
       THEN fres' = AssertionError /\ UNCHANGED fpc
       ELSE fpc' = "opening" /\ UNCHANGED fres
    /\ UNCHANGED <<otherVars, fds, streams, sysOpens, file, fraw, fopens>>

\* File.prototype.open: exports.open settled
FileOpenDone ==
    /\ fpc = "opening"
    /\ \E res \in FsOpenOutcomes(file.path) :
          /\ fraw' = res
          /\ sysOpens' = IF ReachesFilesystem(file.path) THEN sysOpens \cup {file.path} ELSE sysOpens
          /\ IF res = "ok"
             THEN /\ fds' = FdOpened(fds, FileFd(fopens + 1), file.path)
                  /\ file' = [file EXCEPT !.fd = FileFd(fopens + 1)]
                  /\ fopens' = fopens + 1
                  /\ fres' = NoErr
             ELSE /\ fres' = FileOpenError(file.path, res)
                  /\ UNCHANGED <<fds, file, fopens>>
    /\ fpc' = "ready"
    /\ UNCHANGED <<otherVars, streams, lastOp>>

\* File.prototype.close
FileClose ==
    /\ fpc = "ready"
    /\ lastOp' = "close"
    /\ fds' = FileCloseFds(fds, file.fd)
    /\ file' = [file EXCEPT !.fd = FileCloseFd(file.fd)]
    /\ fres' = NoErr
    /\ UNCHANGED <<otherVars, streams, sysOpens, fpc, fraw, fopens>>

\* File.prototype.stat, up to `await exports.fstat`
FileStat ==
    /\ fpc = "ready"
    /\ lastOp' = "stat"
    /\ IF file.fd = Null
       THEN fres' = AssertionError /\ UNCHANGED fpc
       ELSE fpc' = "stating" /\ UNCHANGED fres
    /\ UNCHANGED <<otherVars, fds, streams, sysOpens, file, fraw, fopens>>

\* File.prototype.stat: exports.fstat settled
FileStatDone ==
    /\ fpc = "stating"
    /\ \E res \in FstatOutcomes :
          LET isDirectory == FsKind(file.path) = "dir"
              thrown == IF res # "ok" THEN Err("", res, "", <<>>)
                        ELSE Err("Forbidden", "EISDIR", "", file.path)
              class == IF res # "ok" THEN "plain" ELSE "boom"
          IN /\ fraw' = res
             /\ IF res = "ok" /\ ~isDirectory
                THEN /\ fres' = NoErr
                     /\ UNCHANGED <<fds, file>>
                ELSE /\ fds' = FileCloseFds(fds, file.fd)
                     /\ file' = [file EXCEPT !.fd = FileCloseFd(file.fd)]
                     /\ fres' = FileStatError(file.path, class, thrown)
    /\ fpc' = "ready"
    /\ UNCHANGED <<otherVars, streams, sysOpens, fopens, lastOp>>

\* File.prototype.createReadStream
FileCreateReadStream ==
    /\ fpc = "ready"
    /\ lastOp' = "createReadStream"
    /\ \E autoClose \in BOOLEAN :
          IF file.fd = Null
          THEN fres' = AssertionError /\ UNCHANGED <<file, streams>>
          ELSE /\ streams' = streams \cup {Stream(file.fd, autoClose, "file", Null)}
               /\ file' = [file EXCEPT !.fd = FdAfterCreateReadStream(file.fd, autoClose)]
               /\ fres' = NoErr
    /\ UNCHANGED <<otherVars, fds, sysOpens, fpc, fraw, fopens>>

\* A stream made by the handle ends, fails or is destroyed: an autoClose
\* stream closes the descriptor it was given.
FileStreamClose ==
    /\ \E s \in streams :
          /\ s.req = Null
          /\ fds' = IF s.autoClose THEN FdClosed(fds, s.fd, "stream") ELSE fds
          /\ streams' = streams \ {s}
    /\ UNCHANGED <<otherVars, sysOpens, fileVars, dirVars, loadVars, identVars, httpVars>>

NextFile ==
    \/ FileNew
    \/ FileOpen
    \/ FileOpenDone
    \/ FileClose
    \/ FileStat
    \/ FileStatDone
    \/ FileCreateReadStream
    \/ FileStreamClose

SpecFile == Init /\ [][NextFile]_vars

\* ===================================================== lib/directory.js
\* The directory handler serving one request.  Every File.load and the
\* Fs.readdir of a listing is awaited: one action per continuation.

pipelineVars == <<reqVars, etagVars, identVars, httpVars, fds, streams, sysOpens, loadVars>>

\* Base directory lists a route is configured with (or its path function
\* returns), selections a request can make, and index settings.
DirPathLists == { <<>>, << <<".">> >>, << <<"s">>, <<".">> >>,
                  << <<"/", "d", "2">>, <<".">> >>, << <<".">>, <<"/", "d", "2">> >> }
Selections == { <<>>, <<"x">>, <<"y">>, <<"s">>, <<"m">>, <<"m", "/">>,
                <<".", ".", "/", "e">>, <<".", "h">>, <<"s", "/", ".", "h">>, <<".", ".", "h">> }
IndexSettings == { Index(FALSE, <<>>), Index(TRUE, <<>>), Index(FALSE, << <<"n">>, <<"i">> >>),
                   Index(FALSE, << <<"n">>, <<"k">>, <<"i">> >>), Index(FALSE, << <<"n">> >>) }
DefaultExtensions == { <<>>, <<"g", "z">> }
PathFunctionErrors == { Err("NotFound", "", "", <<>>), Err("Forbidden", "", "", <<>>) }

\* request.path ends with '/' exactly when a non-empty selection does; the
\* router's stripTrailingSlash removes it before the route is matched.  With
\* an empty selection the resource is the route's prefix, with or without
\* its '/'.
EndsWithSlash(path) == Len(path) > 0 /\ path[Len(path)] = "/"
DirRequests ==
    { q \in [pathFn : { "none" }, paths : DirPathLists, pathErr : { NoErr },
             selection : Selections, hasTrailingSlash : BOOLEAN, index : IndexSettings,
             listing : BOOLEAN, showHidden : BOOLEAN, redirectToSlash : BOOLEAN,
             stripTrailingSlash : BOOLEAN, defaultExtension : DefaultExtensions] :
        /\ q.selection # <<>> => (q.hasTrailingSlash <=> EndsWithSlash(q.selection))
        /\ q.stripTrailingSlash /\ q.selection # <<>> => ~q.hasTrailingSlash }
    \cup
    { DirRequest(fn, paths, NoErr, <<"y">>, FALSE, Index(TRUE, <<>>), FALSE, FALSE, TRUE, FALSE, <<>>) :
        fn \in { "array" }, paths \in DirPathLists }
    \cup
    { DirRequest("string", <<dir>>, NoErr, <<"y">>, FALSE, Index(TRUE, <<>>), FALSE, FALSE, TRUE,
                 FALSE, <<>>) : dir \in { <<".">>, <<"/", "d", "2">> } }
    \cup
    { DirRequest("error", <<>>, e, <<"y">>, FALSE, Index(TRUE, <<>>), FALSE, FALSE, TRUE, FALSE, <<>>) :
        e \in PathFunctionErrors }
    \cup
    { DirRequest("invalid", <<>>, NoErr, <<"y">>, FALSE, Index(TRUE, <<>>), FALSE, FALSE, TRUE,
                 FALSE, <<>>) }

\* What Fs.readdir of an existing directory can settle with.
ReaddirOutcomes == { "ok", "EACCES", "EMFILE" }

\* Mutant: the handler ends Forbidden when no base directory is left.
NoCandidateLeftForbidden == Err("Forbidden", "", "", <<>>)

\* handler: what is thrown after the loop over paths (Boom.notFound()).
NoCandidateLeft == Err("NotFound", "", "", <<>>)

\* handler: the loop over paths, entered at index i: each(paths[i]) awaits
\* its File.load, and the handler throws when no base directory is left.
NextPath(q, i) ==
    IF i <= Len(Paths(q))
    THEN /\ dpc' = "loading"
         /\ di' = i
         /\ UNCHANGED <<dj, dres>>
    ELSE /\ dpc' = "done"
         /\ dres' = DirError(NoCandidateLeft)
         /\ UNCHANGED <<di, dj>>

\* handler, up to its first await, for one of the requests of DirRequests
DirHandler ==
    /\ dpc = "idle"
    /\ \E q \in DirRequests :
          /\ dreq' = q
          /\ IF q.pathFn = "error"
             THEN /\ dpc' = "done"
                  /\ dres' = DirError(q.pathErr)
                  /\ UNCHANGED <<di, dj>>
             ELSE IF q.pathFn = "invalid"
             THEN /\ dpc' = "done"
                  /\ dres' = DirError(Err("Internal", "", "Invalid path function", <<>>))
                  /\ UNCHANGED <<di, dj>>
             ELSE IF q.selection # <<>> /\ ~q.showHidden /\ IsFileHidden(q.selection)
             THEN /\ dpc' = "done"
                  /\ dres' = DirError(Err("NotFound", "", "", <<>>))
                  /\ UNCHANGED <<di, dj>>
             ELSE NextPath(q, 1)
    /\ UNCHANGED <<dlog, pipelineVars, fileVars>>

\* Mutant: a directory without index names and without listing is not
\* refused up front.
DirectoryRefusedNever(q) == FALSE

\* each: !indexNames.length && !settings.listing
DirectoryRefused(q) == IndexNames(q.index) = <<>> /\ ~q.listing

\* Mutant: the router's stripTrailingSlash setting is not looked at.
RedirectsDespiteStrip(q) == q.redirectToSlash /\ ~q.hasTrailingSlash

\* each: settings.redirectToSlash !== false && !stripTrailingSlash && !hasTrailingSlash
RedirectsToSlash(q) == q.redirectToSlash /\ ~q.stripTrailingSlash /\ ~q.hasTrailingSlash

\* each: the loop over indexNames, entered at index j, and what follows it
\* when no name is left: Forbidden without listing, the listing's
\* Fs.readdir otherwise.
NextIndex(q, j) ==
    IF j <= Len(IndexNames(q.index))
    THEN /\ dpc' = "indexLoading"
         /\ dj' = j
         /\ UNCHANGED <<di, dres>>
    ELSE IF ~q.listing
    THEN /\ dpc' = "done"
         /\ dres' = DirError(Err("Forbidden", "", "", <<>>))
         /\ UNCHANGED <<di, dj>>
    ELSE /\ dpc' = "listing"
         /\ UNCHANGED <<di, dj, dres>>

\* each: File.load(path) has settled
DirLoadDone ==
    /\ dpc = "loading"
    /\ LET q == dreq
           baseDir == Paths(q)[di]
           path == q.selection
       IN \E res \in FileLoad(path, baseDir) :
             /\ dlog' = Append(dlog, Loaded(baseDir, path, "path", res))
             /\ IF res = NoErr
                THEN /\ dpc' = "done"
                     /\ dres' = DirResult("file", NoErr, path, baseDir)
                     /\ UNCHANGED <<di, dj>>
                ELSE IF IsNotFound(res)
                THEN IF q.defaultExtension # <<>>
                     THEN /\ dpc' = "extLoading"
                          /\ UNCHANGED <<di, dj, dres>>
                     ELSE NextPath(q, di + 1)
                ELSE IF ~IsDirectory(res)
                THEN /\ dpc' = "done"
                     /\ dres' = DirError(res)
                     /\ UNCHANGED <<di, dj>>
                ELSE IF DirectoryRefused(q)
                THEN /\ dpc' = "done"
                     /\ dres' = DirError(Err("Forbidden", "", "", <<>>))
                     /\ UNCHANGED <<di, dj>>
                ELSE IF RedirectsToSlash(q)
                THEN /\ dpc' = "done"
                     /\ dres' = DirResult("redirect", NoErr, path \o <<"/">>, baseDir)
                     /\ UNCHANGED <<di, dj>>
                ELSE NextIndex(q, 1)
    /\ UNCHANGED <<dreq, pipelineVars, fileVars>>

\* each: File.load(path + '.' + settings.defaultExtension) has settled; any
\* Boom error is ignored and each returns undefined.
DirExtDone ==
    /\ dpc = "extLoading"
    /\ LET q == dreq
           baseDir == Paths(q)[di]
           sliced == IF q.hasTrailingSlash
                     THEN SubSeq(q.selection, 1, Len(q.selection) - 1)
                     ELSE q.selection
           path == sliced \o <<".">> \o q.defaultExtension
       IN \E res \in FileLoad(path, baseDir) :
             /\ dlog' = Append(dlog, Loaded(baseDir, path, "ext", res))
             /\ IF res = NoErr
                THEN /\ dpc' = "done"
                     /\ dres' = DirResult("file", NoErr, path, baseDir)
                     /\ UNCHANGED <<di, dj>>
                ELSE NextPath(q, di + 1)
    /\ UNCHANGED <<dreq, pipelineVars, fileVars>>

\* Mutant: an index name that fails to load is passed over whatever the
\* failure.
IndexFailureEndsNever(e) == FALSE

\* each: err.output.statusCode !== 404 for an index file that failed to load
IndexFailureEnds(e) == ~IsNotFound(e)

\* each: File.load(Path.join(path, indexName)) has settled.  The error
\* thrown for a failure other than not-found carries indexName in `path`
\* (the message is indexName + ' is a directory').
DirIndexDone ==
    /\ dpc = "indexLoading"
    /\ LET q == dreq
           baseDir == Paths(q)[di]
           indexName == IndexNames(q.index)[dj]
           indexFile == Join(q.selection, indexName)
       IN \E res \in FileLoad(indexFile, baseDir) :
             /\ dlog' = Append(dlog, Loaded(baseDir, indexFile, "index", res))
             /\ IF res = NoErr
                THEN /\ dpc' = "done"
                     /\ dres' = DirResult("file", NoErr, indexFile, baseDir)
                     /\ UNCHANGED <<di, dj>>
                ELSE IF IndexFailureEnds(res)
                THEN /\ dpc' = "done"
                     /\ dres' = DirError(Err("Internal", "", "is a directory", indexName))
                     /\ UNCHANGED <<di, dj>>
                ELSE NextIndex(q, dj + 1)
    /\ UNCHANGED <<dreq, pipelineVars, fileVars>>

\* internals.generateListing: Fs.readdir(Path.join(baseDir, path)) has settled
DirListingDone ==
    /\ dpc = "listing"
    /\ LET q == dreq
           baseDir == Paths(q)[di]
           path == Join(baseDir, q.selection)
       IN \E res \in ReaddirOutcomes :
             dres' = IF res = "ok"
                     THEN DirResult("listing", NoErr, path, baseDir)
                     ELSE DirError(Err("Internal", res, "Error accessing directory", path))
    /\ dpc' = "done"
    /\ UNCHANGED <<dreq, di, dj, dlog, pipelineVars, fileVars>>

NextDir ==
    \/ DirHandler
    \/ DirLoadDone
    \/ DirExtDone
    \/ DirIndexDone
    \/ DirListingDone

SpecDir == Init /\ [][NextDir]_vars

\* ================================================================ claims
Terminal(r) == pc[r] \in {"failed", "done"}
OpenFdsOf(r) == { d \in {FdOf(r, "file"), FdOf(r, "gz")} : fds[d].state = "open" }

\* C1: for one cache key at most one hash computation is in flight, and it
\* is the one registered in the pending table under that key, so that a
\* requester arriving meanwhile joins it.
C1_OneHashPerKey ==
    /\ \A r1, r2 \in Reqs :
          (/\ promise[r1].state = "pending"
           /\ promise[r2].state = "pending"
           /\ promise[r1].key = promise[r2].key) => r1 = r2
    /\ \A k \in { promise[r].key : r \in Reqs } :
          Cardinality({ s \in streams : s.kind = "hash" /\ promise[s.req].key = k }) <= 1
    /\ \A r \in Reqs :
          promise[r].state = "pending" => PendingsGet(pendings, promise[r].key) = r

\* A second requester has joined a computation that is still hashing.
C1_Witness ==
    \E r1, r2 \in Reqs :
        /\ r1 # r2
        /\ pc[r1] = "hashing"
        /\ pc[r2] = "awaiting"
        /\ waitOn[r2] = r1
        /\ srcPath[r1] = srcPath[r2]

\* C2: every requester that awaited a computation, initiator or joiner, gets
\* that computation's outcome: its fingerprint when it succeeded, its
\* Internal 'Failed to hash file' error when it failed.
C2_SharedOutcome ==
    \A r \in Reqs :
        (waitOn[r] # Null /\ pc[r] \notin {"hashing", "awaiting"}) =>
            LET p == promise[waitOn[r]]
            IN /\ p.state \in {"fulfilled", "rejected"}
               /\ p.state = "fulfilled" =>
                     /\ etag[r] = p.val
                     /\ p.val # NoEtag
                     /\ err[r].msg # "Failed to hash file"
               /\ p.state = "rejected" =>
                     /\ pc[r] = "failed"
                     /\ err[r] = p.err
                     /\ err[r].kind = "Internal"
                     /\ err[r].msg = "Failed to hash file"
                     /\ etag[r] = NoEtag

\* An initiator and a joiner have both failed with the shared error.
C2_Witness ==
    \E r1, r2 \in Reqs :
        /\ r1 # r2
        /\ waitOn[r1] = r1
        /\ waitOn[r2] = r1
        /\ pc[r1] = "failed"
        /\ pc[r2] = "failed"
        /\ err[r2].msg = "Failed to hash file"

\* C3: once a request has ended, no descriptor opened for it is open, and
\* every descriptor that was opened has been closed exactly once, by a
\* handle or by the stream that owned it.
C3_NoLeak ==
    /\ \A r \in Reqs : Terminal(r) => OpenFdsOf(r) = {}
    /\ \A d \in FdIds :
          /\ fds[d].closes <= 1
          /\ fds[d].state = "closed" => (fds[d].closes = 1 /\ Cardinality(fds[d].by) = 1)

\* All requests have ended; descriptors were closed by a stream and by a
\* handle, one request failed and one was served.
C3_Witness ==
    /\ \A r \in Reqs : Terminal(r)
    /\ \E d \in FdIds : fds[d].by = {"stream"}
    /\ \E d \in FdIds : fds[d].by = {"handle"}
    /\ \E r \in Reqs : pc[r] = "failed" /\ fds[FdOf(r, "file")].state = "closed"

\* The directory R and what lies in it: R itself and the paths below it.
InsideDir(path, dir) ==
    \/ path = dir
    \/ StartsWith(path, IF dir = <<"/">> THEN dir ELSE dir \o <<"/">>)
ResolvedIn(path, dir) == IF IsAbsolute(path) THEN Normalize(path) ELSE Join(dir, path)
Escapes(r) ==
    /\ pc[r] # "idle"
    /\ inConfine[r] # <<>>
    /\ ~InsideDir(ResolvedIn(inPath[r], Resolve(RelativeTo, inConfine[r])),
                  Resolve(RelativeTo, inConfine[r]))

\* C4: with confinement on, a request whose path resolves outside the
\* confinement directory (a sibling directory sharing the name prefix
\* included) is never opened and fails Forbidden with EACCES.
C4_ConfinedToDir ==
    \A r \in Reqs :
        Escapes(r) =>
            /\ pc[r] \in {"created", "tick", "failed"}
            /\ fds[FdOf(r, "file")].state = "free"
            /\ pc[r] = "failed" => (err[r].kind = "Forbidden" /\ err[r].code = "EACCES")

\* C5: an open descriptor has exactly one owner, a handle (source.fd, the fd
\* of a pending openStat, a File's fd) or an autoClose stream, and no
\* descriptor is closed by both a handle and a stream.
Owners(d) ==
    Cardinality({ r \in Reqs : srcFd[r] = d })
    + Cardinality({ r \in Reqs : opFd[r] = d })
    + Cardinality({ s \in streams : s.fd = d /\ s.autoClose })
    + (IF file.fd = d THEN 1 ELSE 0)

C5_SingleOwner ==
    \A d \in FdIds :
        /\ fds[d].state = "open" => Owners(d) = 1
        /\ fds[d].state = "closed" => Owners(d) = 0
        /\ fds[d].by # {"handle", "stream"}
        /\ fds[d].closes <= 1

\* The body stream owns a descriptor that the close hook then left alone:
\* the response is closed, the descriptor will be closed by the stream.
C5_Witness ==
    \E r \in Reqs :
        /\ pc[r] = "done"
        /\ srcFd[r] = Null
        /\ fds[FdOf(r, "file")].by = {"stream"}
        /\ fds[FdOf(r, "file")].closes = 1

\* C6: when stat fails the handle's descriptor has been closed and reset
\* before the caller sees the failure: Forbidden EISDIR for a directory,
\* Internal 'Failed to stat file' for an fstat error.
C6_StatFailureCloses ==
    (lastOp = "stat" /\ fpc = "ready" /\ fres.kind # "AssertionError") =>
        IF fres = NoErr
        THEN fraw = "ok" /\ FsKind(file.path) # "dir" /\ file.fd # Null
        ELSE /\ file.fd = Null
             /\ fds[FileFd(fopens)].state = "closed"
             /\ fds[FileFd(fopens)].by = {"handle"}
             /\ IF fraw = "ok"
                THEN /\ FsKind(file.path) = "dir"
                     /\ fres = Err("Forbidden", "EISDIR", "", file.path)
                ELSE /\ fres.kind = "Internal"
                     /\ fres.msg = "Failed to stat file"

\* stat of an opened directory has just failed.
C6_Witness ==
    /\ lastOp = "stat"
    /\ fpc = "ready"
    /\ fres.kind = "Forbidden"
    /\ fres.code = "EISDIR"
    /\ fds[FileFd(fopens)].state = "closed"

\* C7: a failed open is NotFound when the path holds a NUL or the code is
\* ENOENT, else Forbidden with the code for EACCES / EPERM, else Internal
\* 'Failed to open file'; the fd stays null and the error carries the path.
C7_OpenFailureClass ==
    (lastOp = "open" /\ fpc = "ready" /\ fres.kind # "AssertionError" /\ fraw # "ok") =>
        /\ file.fd = Null
        /\ fres.path = file.path
        /\ fres.kind \in {"NotFound", "Forbidden", "Internal"}
        /\ fres.kind = "NotFound" <=> (HasNul(file.path) \/ fraw = "ENOENT")
        /\ fres.kind = "Forbidden" <=>
              (~HasNul(file.path) /\ fraw \in {"EACCES", "EPERM"})
        /\ fres.kind = "Forbidden" => fres.code = fraw
        /\ fres.kind = "Internal" => (fres.msg = "Failed to open file" /\ fres.code = fraw)

\* A permission error on a path with a NUL has been reported as NotFound.
C7_Witness ==
    /\ lastOp = "open"
    /\ fpc = "ready"
    /\ HasNul(file.path)
    /\ fraw = "EACCES"
    /\ fres.kind = "NotFound"
    /\ fres.path = file.path

ErrorHandedOn(r) ==
    \/ pc[r] \in {"failed", "marshalFailed"}
    \/ pc[r] = "done" /\ why[r] = "error"
C9_ClosedBeforeError ==
    \A r \in Reqs :
        (ErrorHandedOn(r) /\ fds[FdOf(r, "file")].state # "free") => OpenFdsOf(r) = {}

\* C9 amended: a failed prepare (stat or hashing) and a response the host
\* disposed of hold no open descriptor; after a range-not-satisfiable the
\* error is handed on while source.fd still holds the one open descriptor,
\* which the close hook closes when the host finalizes the response.
C9_ClosedByCloseHook ==
    \A r \in Reqs :
        /\ pc[r] \in {"failed", "done"} => OpenFdsOf(r) = {}
        /\ pc[r] = "marshalFailed" => (srcFd[r] # Null /\ OpenFdsOf(r) = {srcFd[r]})

\* A request that failed range negotiation has ended, its descriptor closed
\* by the close hook.
C9_Witness ==
    \E r \in Reqs :
        /\ pc[r] = "done"
        /\ err[r].kind = "NotSatisfiable"
        /\ fds[FdOf(r, "file")].by = {"handle"}

\* C10: close() on a handle without a descriptor (never opened, closed,
\* transferred) changes nothing and returns; on a handle with a descriptor
\* it issues one close and resets fd; no descriptor is closed twice.
IsCloseCall == lastOp' = "close" /\ streams' = streams /\ fpc = "ready"
C10_CloseIdempotent ==
    /\ [](\A d \in FdIds : fds[d].closes <= 1)
    /\ [][IsCloseCall =>
            /\ fres' = NoErr
            /\ file'.fd = Null
            /\ file.fd = Null => fds' = fds
            /\ file.fd # Null =>
                  /\ fds'[file.fd].closes = fds[file.fd].closes + 1
                  /\ \A d \in FdIds \ {file.fd} : fds'[d] = fds[d]]_vars

\* close() was called on a handle whose descriptor a stream owns: the
\* descriptor is still open.
C10_Witness ==
    /\ lastOp = "close"
    /\ file.fd = Null
    /\ \E s \in streams : s.req = Null /\ s.autoClose /\ fds[s.fd].state = "open"

\* C11 as claimed: a request whose response ended as a 304 never had its
\* file opened.
C11_NoOpenOn304 ==
    \A r \in Reqs : why[r] = "304" => fds[FdOf(r, "file")].state = "free"

\* C11 amended: a response can only end as a 304 after prepare opened and
\* stat'ed the file (the validators the host compares come from that stat);
\* that one descriptor, on the resolved path of a regular file, has been
\* closed once.
C11_OpenedBefore304 ==
    \A r \in Reqs :
        why[r] = "304" =>
            /\ srcPath[r] \in sysOpens
            /\ FsKind(srcPath[r]) = "file"
            /\ fds[FdOf(r, "file")].path = srcPath[r]
            /\ fds[FdOf(r, "file")].state = "closed"
            /\ fds[FdOf(r, "file")].closes = 1

\* A response that carries an ETag computed in prepare ended as a 304.
C11_Witness ==
    \E r \in Reqs : why[r] = "304" /\ etag[r] # NoEtag /\ srcPath[r] \in sysOpens

\* C12: a 304 is decided on a prepared response that was never marshalled
\* (no sibling opened, no body stream), the step that decides it closes the
\* descriptor opened by prepare through the close hook, and nothing happens
\* to the request afterwards.
MarshalStates == {"gzOpening", "gzStating", "streaming", "marshalFailed", "sent"}
C12_NoMarshalOn304 ==
    /\ [](\A r \in Reqs :
            why[r] = "304" =>
                /\ pc[r] = "done"
                /\ fds[FdOf(r, "gz")].state = "free"
                /\ fds[FdOf(r, "file")].state = "closed"
                /\ fds[FdOf(r, "file")].by = {"handle"}
                /\ ~\E s \in streams : s.req = r /\ s.kind = "body")
    /\ [][\A r \in Reqs :
            /\ (why'[r] = "304" /\ why[r] # "304") =>
                  /\ pc[r] = "prepared"
                  /\ srcFd[r] # Null
                  /\ fds[srcFd[r]].state = "open"
                  /\ fds'[srcFd[r]].state = "closed"
                  /\ srcFd'[r] = Null
            /\ pc[r] \in MarshalStates => pc'[r] # "prepared"
            /\ why[r] = "304" => (pc'[r] = "done" /\ why'[r] = "304")]_vars

\* A prepared response ended as a 304 and its descriptor was closed by the
\* close hook.
C12_Witness ==
    \E r \in Reqs :
        /\ why[r] = "304"
        /\ pc[r] = "done"
        /\ srcFd[r] = Null
        /\ fds[FdOf(r, "file")].by = {"handle"}

C14_RestoredIdentityHits ==
    [][\A r \in Reqs :
          LET key == CacheKey(srcPath[r], srcStat'[r])
          IN (/\ pc[r] = "stating"
              /\ pc'[r] \notin {"stating", "failed"}
              /\ etagMethod'[r] = "hash"
              /\ etagsOn
              /\ \E i \in 1..Len(etags) : etags[i].key = key) =>
                  /\ pc'[r] = "prepared"
                  /\ \E i \in 1..Len(etags) : etags[i].key = key /\ etag'[r] = etags[i].val
                  /\ pendings' = pendings
                  /\ promise' = promise
                  /\ streams' = streams
                  /\ \A i \in 1..Len(etags) : \E j \in 1..Len(etags') : etags'[j] = etags[i]]_vars

\* The file was modified to VersionB, hashed, and restored to VersionA: the
\* cache holds both, and a request that saw VersionA's stat was answered with
\* the fingerprint cached for it without a computation of its own.
C14_Witness ==
    /\ pc[1] = "prepared"
    /\ etagMethod[1] = "hash"
    /\ promise[1] = NoPromise
    /\ waitOn[1] = Null
    /\ srcStat[1] = [ino |-> VersionA.ino, size |-> VersionA.size, mtime |-> VersionA.mtime]
    /\ Len(etags) = 2
    /\ etags[1].key = CacheKey(srcPath[1], srcStat[1])
    /\ etags[1].val = etag[1]
    /\ etags[2].key = CacheKey(srcPath[1], [ino |-> VersionB.ino, size |-> VersionB.size,
                                           mtime |-> VersionB.mtime])

\* C15 as claimed: without a cache a hash-mode request still gets a
\* fingerprint.
C15_FreshWithoutCache ==
    \A r \in Reqs :
        (~etagsOn /\ etagMethod[r] = "hash" /\ pc[r] \in {"prepared", "done"}) =>
            etag[r] # NoEtag

\* C15 amended: without a cache a hash-mode request computes no fingerprint:
\* no cache key is made, the file is not read, the response is prepared at
\* once and has no ETag.
C15_NoFingerprintWithoutCache ==
    ~etagsOn =>
        /\ log = {}
        /\ ~\E s \in streams : s.kind = "hash"
        /\ \A r \in Reqs :
              etagMethod[r] = "hash" => (etag[r] = NoEtag /\ pc[r] \in {"prepared", "done"})

\* A hash-mode request was prepared without a cache.
C15_Witness ==
    /\ ~etagsOn
    /\ etagMethod[1] = "hash"
    /\ pc[1] = "prepared"
    /\ srcFd[1] # Null
    /\ etag[1] = NoEtag

\* C16: without a cache nothing is ever pending, cached or being hashed;
\* the ETag step of a hash-mode request ends at once without error and
\* without an ETag, and the response is streamed without one.
C16_NoEtagWithoutCache ==
    /\ [](~etagsOn =>
            /\ pendings = {}
            /\ etags = <<>>
            /\ ~\E s \in streams : s.kind = "hash"
            /\ \A r \in Reqs :
                  /\ pc[r] \notin {"hashing", "awaiting"}
                  /\ promise[r] = NoPromise
                  /\ (etagMethod[r] = "hash" /\ pc[r] \in {"streaming", "sent"}) =>
                        (etag[r] = NoEtag /\ err[r] = NoErr))
    /\ [][\A r \in Reqs :
            (~etagsOn /\ pc[r] = "stating" /\ etagMethod'[r] = "hash") =>
                (pc'[r] = "prepared" /\ etag'[r] = NoEtag /\ err'[r] = NoErr)]_vars

\* Without a cache a first and a later hash-mode request were both streamed
\* to the end without an ETag.
C16_Witness ==
    /\ ~etagsOn
    /\ \A r \in {1, 2} :
          /\ etagMethod[r] = "hash"
          /\ pc[r] \in {"sent", "done"}
          /\ why[r] = ""
          /\ err[r] = NoErr
          /\ etag[r] = NoEtag
    /\ pc[1] = "done"

\* Reading a lower-case hexadecimal numeral.
HexDigits == <<"0", "1", "2", "3", "4", "5", "6", "7", "8", "9", "a", "b", "c", "d", "e", "f">>
IsHexNumeral(t) ==
    /\ Len(t) > 0
    /\ \A i \in 1..Len(t) : \E v \in 1..16 : HexDigits[v] = t[i]
    /\ Len(t) > 1 => t[1] # "0"
RECURSIVE HexValue(_)
HexValue(t) ==
    IF t = <<>> THEN 0
    ELSE 16 * HexValue(SubSeq(t, 1, Len(t) - 1))
         + (CHOOSE v \in 1..16 : HexDigits[v] = t[Len(t)]) - 1

\* C17: in simple mode the ETag is the size in hexadecimal, '-', and the
\* mtime in hexadecimal; the step that sets it reads and writes neither the
\* cache nor the pending table and creates no stream, with or without a cache.
C17_SimpleEtag ==
    /\ [](\A r \in Reqs :
            etagMethod[r] = "simple" =>
                \E k \in 1..Len(etag[r]) :
                    LET left == SubSeq(etag[r], 1, k - 1)
                        right == SubSeq(etag[r], k + 1, Len(etag[r]))
                    IN /\ etag[r][k] = "-"
                       /\ IsHexNumeral(left)
                       /\ IsHexNumeral(right)
                       /\ HexValue(left) = srcStat[r].size
                       /\ HexValue(right) = srcStat[r].mtime)
    /\ [][\A r \in Reqs :
            (pc[r] = "stating" /\ etagMethod'[r] = "simple") =>
                /\ pc'[r] = "prepared"
                /\ etags' = etags
                /\ pendings' = pendings
                /\ promise' = promise
                /\ streams' = streams
                /\ log' = log]_vars

\* Without a cache, a simple-mode request for the 47-byte version got '2f-1'.
C17_Witness ==
    /\ ~etagsOn
    /\ etagMethod[1] = "simple"
    /\ pc[1] = "prepared"
    /\ srcStat[1].size = 47
    /\ etag[1] = <<"2", "f", "-", "1">>

\* Marshal has run to its end for a request that carried a Range header.
Negotiated(r) ==
    /\ request[r].range # NoHeader
    /\ pc[r] \in {"streaming", "sent", "marshalFailed", "done"}

\* The length of the content that is served: the sibling's when the
\* precompressed sibling was substituted, the file's otherwise.
FullLength(r) ==
    IF response[r].encoding = "gzip" THEN StatOf(srcPath[r] \o GzSuffix).size ELSE srcStat[r].size

\* Range handling applies: ranges are not disabled for the route, the
\* content-length is known and not zero, If-Range is absent or is the
\* response's ETag, and the host will not encode the content on the way out.
RangeApplies(r) ==
    /\ request[r].ranges
    /\ response[r].length # NoLength
    /\ FullLength(r) # 0
    /\ request[r].ifRange = NoHeader \/ request[r].ifRange = EtagHeader(etag[r])
    /\ \/ ~request[r].compression
       \/ ~request[r].compressible
       \/ response[r].encoding = "gzip"
       \/ request[r].acceptEncoding \in {"", "identity"}

HasBodyStream(r) == \E s \in streams : s.req = r /\ s.kind = "body"

\* C18: when range handling applies and the Range header is 'bytes=f-t'
\* with f <= t <= L-1 for the served length L, the response has status 206,
\* content-length t-f+1 and content-range 'bytes f-t/L', no error, and the
\* body stream is created with start f and end t.
C18_SingleRange ==
    \A r \in Reqs : \A f \in 0..3 : \A t \in 0..3 :
        ( /\ Negotiated(r)
          /\ RangeApplies(r)
          /\ request[r].range = RangeHeader("bytes", "=", <<RangeSpec(f, t)>>)
          /\ f <= t
          /\ t <= FullLength(r) - 1 )
        => /\ err[r] = NoErr
           /\ pc[r] # "marshalFailed"
           /\ response[r].code = 206
           /\ response[r].length = t - f + 1
           /\ response[r].contentRange =
                 <<"bytes", " ">> \o NumToString(f) \o <<"-">> \o NumToString(t) \o <<"/">>
                    \o NumToString(FullLength(r))
           /\ response[r].start = f
           /\ response[r].end = t
           /\ pc[r] = "streaming" => HasBodyStream(r)

\* 'bytes=0-1' of the 4-byte file is being streamed as 'bytes 0-1/4'.
C18_Witness ==
    /\ pc[1] = "streaming"
    /\ HasBodyStream(1)
    /\ request[1].range = RangeHeader("bytes", "=", <<RangeSpec(0, 1)>>)
    /\ response[1].code = 206
    /\ response[1].length = 2
    /\ response[1].contentRange = <<"bytes", " ", "0", "-", "1", "/", "4">>
    /\ response[1].start = 0
    /\ response[1].end = 1

\* C19: every range a 206 response is built from satisfies
\* 0 <= from <= to <= L-1; 'bytes=X-Y' with X < L <= Y is served as 206 with
\* to = L-1; 'bytes=N-' with N = L-1 is served as one byte.
C19_RangeWithinBounds ==
    \A r \in Reqs :
        LET L == FullLength(r)
            h == request[r].range
        IN Negotiated(r) =>
              /\ response[r].code = 206 =>
                    /\ 0 <= response[r].start
                    /\ response[r].start <= response[r].end
                    /\ response[r].end <= L - 1
              /\ \A x \in 0..4 : \A y \in 0..9 :
                    (RangeApplies(r) /\ h = RangeHeader("bytes", "=", <<RangeSpec(x, y)>>)
                        /\ x < L /\ y >= L)
                    => (response[r].code = 206 /\ response[r].end = L - 1 /\ err[r] = NoErr)
              /\ (RangeApplies(r) /\ h = RangeHeader("bytes", "=", <<RangeSpec(L - 1, None)>>))
                    => (response[r].code = 206 /\ response[r].length = 1)

\* C20: when range handling applies and the Range header does not parse to a
\* valid range (another unit, a malformed format, 'bytes=-',
\* inverted bounds, from beyond L-1), marshal fails with NotSatisfiable
\* carrying content-range 'bytes */L' for the full length L, and no body
\* stream is created.
InvalidRange(h, L) ==
    \/ h.unit # "bytes"
    \/ h.sep # "="
    \/ \E i \in 1..Len(h.specs) :
          LET spec == h.specs[i]
          IN \/ spec.from = None /\ spec.to = None
             \/ spec.from # None /\ spec.to # None /\ spec.from > spec.to
             \/ spec.from # None /\ spec.from > L - 1
C20_NotSatisfiable ==
    /\ [](\A r \in Reqs :
            (Negotiated(r) /\ RangeApplies(r) /\ InvalidRange(request[r].range, FullLength(r)))
            => /\ err[r].kind = "NotSatisfiable"
               /\ response[r].errContentRange = <<"bytes", " ", "*", "/">> \o NumToString(FullLength(r))
               /\ response[r].code = 200
               /\ response[r].contentRange = NoHeader
               /\ response[r].start = None
               /\ ~HasBodyStream(r)
               /\ pc[r] \in {"marshalFailed", "done"})
    /\ [][\A r \in Reqs :
            (Negotiated(r)' /\ RangeApplies(r)' /\ InvalidRange(request'[r].range, FullLength(r)'))
            => streams' = streams]_vars

\* 'bytes=4-' of the 4-byte file failed with 'bytes */4' and no stream.
C20_Witness ==
    /\ pc[1] = "marshalFailed"
    /\ request[1].range = RangeHeader("bytes", "=", <<RangeSpec(4, None)>>)
    /\ err[1].kind = "NotSatisfiable"
    /\ response[1].errContentRange = <<"bytes", " ", "*", "/", "4">>
    /\ streams = {}

\* Marshal has run to its end, with or without a Range header.
Marshalled(r) ==
    \/ pc[r] \in {"streaming", "sent", "marshalFailed"}
    \/ pc[r] = "done" /\ why[r] = ""

\* The full content is served: status 200, no content-range, no range
\* error, and a stream over the whole file.
FullContent(r) ==
    /\ err[r] = NoErr
    /\ pc[r] # "marshalFailed"
    /\ response[r].code = 200
    /\ response[r].contentRange = NoHeader
    /\ response[r].errContentRange = NoHeader
    /\ response[r].start = 0
    /\ response[r].end = None
    /\ pc[r] = "streaming" => HasBodyStream(r)

\* C21: when range handling applies and the Range header holds two valid
\* ranges 'bytes=a-b,c-d' with a gap between them (b + 1 < c <= L-1), the
\* header is ignored: status 200, the full content-length L, no
\* content-range, and a stream over the whole file.
C21_MultipleRangesIgnored ==
    \A r \in Reqs : \A a \in 0..3 : \A b \in 0..3 : \A c \in 0..3 : \A d \in 0..3 :
        ( /\ Negotiated(r)
          /\ RangeApplies(r)
          /\ request[r].range \in { RangeHeader("bytes", "=", <<RangeSpec(a, b), RangeSpec(c, d)>>),
                                    RangeHeader("bytes", "=", <<RangeSpec(c, d), RangeSpec(a, b)>>) }
          /\ a <= b /\ b + 1 < c /\ c <= d
          /\ c <= FullLength(r) - 1 )
        => /\ FullContent(r)
           /\ response[r].length = FullLength(r)

\* 'bytes=0-0,2-3' of the 4-byte file is being streamed whole.
C21_Witness ==
    /\ pc[1] = "streaming"
    /\ HasBodyStream(1)
    /\ RangeApplies(1)
    /\ request[1].range = RangeHeader("bytes", "=", <<RangeSpec(0, 0), RangeSpec(2, 3)>>)
    /\ response[1].code = 200
    /\ response[1].length = 4
    /\ response[1].start = 0

\* C22: with an If-Range header that is not the response's ETag the Range
\* header is ignored whatever it holds (status 200, full content, no 416);
\* with If-Range equal to the ETag, and range handling otherwise applying,
\* 'bytes=0-1' is served as 206 and 'bytes=-' fails with NotSatisfiable.
C22_IfRange ==
    \A r \in Reqs :
        Negotiated(r) =>
            /\ (request[r].ifRange # NoHeader /\ request[r].ifRange # EtagHeader(etag[r]))
                  => FullContent(r)
            /\ (request[r].ifRange # NoHeader /\ request[r].ifRange = EtagHeader(etag[r])
                    /\ RangeApplies(r))
                  => /\ request[r].range = RangeHeader("bytes", "=", <<RangeSpec(0, 1)>>)
                        => response[r].code = 206
                     /\ request[r].range = RangeHeader("bytes", "=", <<RangeSpec(None, None)>>)
                        => err[r].kind = "NotSatisfiable"

\* 'bytes=-' with a mismatching If-Range is being streamed whole although
\* the response has an ETag.
C22_Witness ==
    /\ pc[1] = "streaming"
    /\ HasBodyStream(1)
    /\ etag[1] # NoEtag
    /\ request[1].ranges
    /\ request[1].range = RangeHeader("bytes", "=", <<RangeSpec(None, None)>>)
    /\ request[1].ifRange = <<"\"", "z", "\"">>
    /\ response[1].code = 200
    /\ response[1].length = 4

\* C23: if compression is enabled, the content type is compressible, no
\* content-encoding is set and the accepted encoding is neither empty nor
\* 'identity', the Range header is ignored (200, full content); if the
\* precompressed sibling was substituted and range handling applies,
\* 'bytes=0-1' is served from the sibling: 206 with 'bytes 0-1/<sibling length>'.
C23_NoRangeWhenEncoded ==
    \A r \in Reqs :
        Negotiated(r) =>
            /\ ( /\ request[r].compression
                 /\ request[r].compressible
                 /\ response[r].encoding = ""
                 /\ request[r].acceptEncoding \notin {"", "identity"} )
               => FullContent(r)
            /\ ( /\ response[r].encoding = "gzip"
                 /\ RangeApplies(r)
                 /\ request[r].range = RangeHeader("bytes", "=", <<RangeSpec(0, 1)>>) )
               => /\ response[r].code = 206
                  /\ response[r].length = 2
                  /\ response[r].contentRange =
                        <<"bytes", " ", "0", "-", "1", "/">>
                           \o NumToString(StatOf(srcPath[r] \o GzSuffix).size)

\* 'bytes=0-1' of a compressible file for a client accepting gzip, without a
\* precompressed sibling in use, is being streamed whole.
C23_Witness ==
    /\ pc[1] = "streaming"
    /\ HasBodyStream(1)
    /\ request[1].ranges
    /\ request[1].ifRange = NoHeader
    /\ request[1].compression
    /\ request[1].compressible
    /\ request[1].acceptEncoding = "gzip"
    /\ response[1].encoding = ""
    /\ request[1].range = RangeHeader("bytes", "=", <<RangeSpec(0, 1)>>)
    /\ response[1].code = 200
    /\ response[1].length = 4

\* C24 as stated: whenever ranges are not disabled for the route, every
\* marshalled request has accept-ranges set, also one that ends with an
\* unsatisfiable range; when they are disabled accept-ranges is never set
\* and a Range header never gives 206 or 416.
C24_AcceptRangesAlways ==
    \A r \in Reqs :
        Marshalled(r) =>
            /\ request[r].ranges => response[r].acceptRanges
            /\ ~request[r].ranges => (~response[r].acceptRanges /\ FullContent(r))

\* C24: whenever ranges are not disabled for the route, every marshalled
\* request that is served (200 or 206) has accept-ranges set: without a Range
\* header, with a mismatching If-Range, with an ignored multi-range; one that
\* fails with an unsatisfiable range has not, nor has any status or range
\* header; when ranges are disabled accept-ranges is never set and a Range
\* header never gives 206 or 416.
C24_AcceptRangesWhenServed ==
    \A r \in Reqs :
        Marshalled(r) =>
            /\ (request[r].ranges /\ err[r] = NoErr) => response[r].acceptRanges
            /\ (request[r].ranges /\ err[r].kind = "NotSatisfiable")
                  => (~response[r].acceptRanges /\ response[r].code = 200
                      /\ response[r].contentRange = NoHeader)
            /\ ~request[r].ranges => (~response[r].acceptRanges /\ FullContent(r))

\* One 4-byte file was served whole with accept-ranges for a request
\* without a Range header.
C24_Witness ==
    /\ pc[1] = "sent"
    /\ request[1].ranges
    /\ request[1].range = NoHeader
    /\ response[1].acceptRanges
    /\ response[1].code = 200
    /\ response[1].length = 4

\* C25: if the content-length header is absent, or zero as for an empty
\* file, a Range header, however malformed, gives neither 206 nor 416: the
\* response stays 200 with a stream over the whole file.
C25_NoRangeWithoutLength ==
    \A r \in Reqs :
        ( /\ Negotiated(r)
          /\ \/ response[r].length = NoLength
             \/ srcStat[r].size = 0 /\ response[r].encoding = "" )
        => FullContent(r)

\* 'horses=1-2' after an extension deleted the content-length is being
\* streamed whole.
C25_Witness ==
    /\ pc[1] = "streaming"
    /\ HasBodyStream(1)
    /\ request[1].ranges
    /\ request[1].ifRange = NoHeader
    /\ ~request[1].compression
    /\ request[1].range = RangeHeader("horses", "=", <<RangeSpec(1, 2)>>)
    /\ srcStat[1].size = 4
    /\ response[1].length = NoLength
    /\ response[1].code = 200

\* What marshal leaves when it serves the primary file of request r, whose
\* response was `before` when marshal began: no error but a range error, no
\* content-encoding, the prepared content-length unless a range replaced
\* it, the primary descriptor open (and streamed from, when a stream was
\* made), and no descriptor of the sibling open.
PrimaryServed(r, before, after, table, made, e) ==
    /\ e \in {NoErr, Err("NotSatisfiable", "", "", <<>>)}
    /\ after.encoding = ""
    /\ after.code = 200 => after.length = before.length
    /\ after.code = 206 => after.end <= before.length - 1
    /\ table[FdOf(r, "file")].state = "open"
    /\ table[FdOf(r, "gz")].state # "open"
    /\ e = NoErr => \E st \in made : st.req = r /\ st.kind = "body" /\ st.fd = FdOf(r, "file")

\* C26: when the precompressed sibling is looked up and cannot be opened and
\* stat'ed (missing, permission denied, a directory, an I/O error), the
\* request does not fail on that account: marshal goes on with the primary
\* file's open descriptor, content-length and headers, sets no
\* content-encoding, and leaves no descriptor of the sibling open.  A
\* sibling name that is missing or a directory never ends in a substitution.
C26_SiblingFailureFallsBack ==
    /\ [](\A r \in Reqs :
            (Marshalled(r) /\ LookupCompressed(request[r])
                /\ FsKind(srcPath[r] \o GzSuffix) # "file")
            => /\ response[r].encoding = ""
               /\ err[r] \in {NoErr, Err("NotSatisfiable", "", "", <<>>)}
               /\ fds[FdOf(r, "gz")].state # "open")
    /\ [][\A r \in Reqs :
            (pc[r] \in {"gzOpening", "gzStating"} /\ pc'[r] \notin {"gzOpening", "gzStating"}
                /\ response'[r].encoding # "gzip")
            => PrimaryServed(r, response[r], response'[r], fds', streams', err'[r])]_vars

\* The sibling name o.gz of the empty file o is a directory: it was opened,
\* closed again after the stat, and o is being streamed from its own
\* descriptor.
C26_Witness ==
    /\ pc[1] = "streaming"
    /\ LookupCompressed(request[1])
    /\ FsKind(srcPath[1] \o GzSuffix) = "dir"
    /\ fds[FdOf(1, "gz")].state = "closed"
    /\ fds[FdOf(1, "file")].state = "open"
    /\ response[1].encoding = ""
    /\ \E st \in streams : st.req = 1 /\ st.kind = "body" /\ st.fd = FdOf(1, "file")

\* ---------------------------------------------------------------- C27
\* The File.load calls made for the selected path itself, one per base
\* directory tried.
PathLoads == SelectSeq(dlog, LAMBDA l : l.as = "path")

\* The handler threw before its loop over the base directories: the path
\* function gave no directories, or the selection is hidden.
RejectedUpFront ==
    \/ dreq.pathFn \in { "error", "invalid" }
    \/ dreq.selection # <<>> /\ ~dreq.showHidden /\ IsFileHidden(dreq.selection)

\* Every base directory was tried and yielded nothing: the selected path
\* was not found there and no file was loaded from it.
AllCandidatesNotFound ==
    /\ Len(PathLoads) = Len(Paths(dreq))
    /\ \A n \in 1..Len(PathLoads) : IsNotFound(PathLoads[n].res)
    /\ \A n \in 1..Len(dlog) : dlog[n].res # NoErr

\* The base directories are tried in the configured order, one after the
\* other, and every load is made in the base directory being tried; a
\* base directory is tried only after all earlier ones yielded not-found; a
\* load that succeeds is the last one made and its file is the result.
TriedInOrder ==
    /\ Len(PathLoads) <= Len(Paths(dreq))
    /\ \A n \in 1..Len(PathLoads) : PathLoads[n].dir = Paths(dreq)[n]
    /\ \A n \in 1..Len(PathLoads) - 1 : IsNotFound(PathLoads[n].res)
    /\ \A n \in 1..Len(dlog) :
          dlog[n].dir = Paths(dreq)[Len(SelectSeq(SubSeq(dlog, 1, n), LAMBDA l : l.as = "path"))]
    /\ \A n \in 1..Len(dlog) - 1 : dlog[n].res # NoErr
    /\ (dlog # <<>> /\ dlog[Len(dlog)].res = NoErr)
          => /\ dpc = "done"
             /\ dres = DirResult("file", NoErr, dlog[Len(dlog)].path, dlog[Len(dlog)].dir)
    /\ dres.kind \in { "file", "redirect", "listing" } => dres.dir = Paths(dreq)[Len(PathLoads)]

C28_OnlyNotFoundMovesOn ==
    \A n \in 1..Len(dlog) :
        dlog[n].as \in { "path", "ext" } =>
            LET res == dlog[n].res
                failure == /\ res # NoErr
                           /\ ~IsNotFound(res)
                           /\ ~(dlog[n].as = "path" /\ IsDirectory(res))
            IN /\ (n < Len(dlog) /\ dlog[n + 1].dir # dlog[n].dir) => IsNotFound(res)
               /\ failure => /\ n = Len(dlog)
                             /\ dpc = "done"
                             /\ dres = DirError(res)

\* The same for the loads of the selected path itself, the default
\* extension's further attempt left aside.
C28_PathFailureSurfaced ==
    \A n \in 1..Len(dlog) :
        dlog[n].as = "path" =>
            LET res == dlog[n].res
            IN /\ (n < Len(dlog) /\ dlog[n + 1].dir # dlog[n].dir /\ dlog[n + 1].as = "path")
                     => IsNotFound(res)
               /\ (res # NoErr /\ ~IsNotFound(res) /\ ~IsDirectory(res))
                     => /\ n = Len(dlog)
                        /\ dpc = "done"
                        /\ dres = DirError(res)

\* ---------------------------------------------------------------- C29
\* The File.load calls made for index files.
IndexLoads == SelectSeq(dlog, LAMBDA l : l.as = "index")

\* C29: index files are loaded only for a selected path that is a
\* directory, in the configured order of the index names; the first one
\* that loads is served and no later name is tried; a name that is not
\* found is followed by the next name; a name that is itself a directory
\* ends the request with Internal '<name> is a directory', no later name
\* and no listing being tried.
C29_IndexInOrder ==
    LET names == IndexNames(dreq.index)
        last == Len(IndexLoads)
    IN /\ last <= Len(names)
       /\ last > 0 => /\ PathLoads # <<>>
                      /\ IsDirectory(PathLoads[Len(PathLoads)].res)
                      /\ FsKind(ResponsePath(dreq.selection, Paths(dreq)[di])) = "dir"
       /\ \A k \in 1..last :
             /\ IndexLoads[k].path = Join(dreq.selection, names[k])
             /\ IndexLoads[k].dir = Paths(dreq)[di]
             /\ k < last => IsNotFound(IndexLoads[k].res)
       /\ last > 0 =>
             LET res == IndexLoads[last].res
             IN /\ dlog[Len(dlog)] = IndexLoads[last]
                /\ res = NoErr
                      => /\ dpc = "done"
                         /\ dres = DirResult("file", NoErr, IndexLoads[last].path, Paths(dreq)[di])
                /\ (IsNotFound(res) /\ last < Len(names))
                      => dpc = "indexLoading" /\ dj = last + 1
                /\ IsDirectory(res)
                      => /\ dpc = "done"
                         /\ dres = DirError(Err("Internal", "", "is a directory", names[last]))

\* Of the index names n, k, i in the directory s, n was not found and k is
\* a directory: the request ended with Internal 'k is a directory' and i,
\* which exists, was not tried.
C29_Witness ==
    /\ dpc = "done"
    /\ IndexNames(dreq.index) = << <<"n">>, <<"k">>, <<"i">> >>
    /\ Len(IndexLoads) = 2
    /\ IsNotFound(IndexLoads[1].res)
    /\ IsDirectory(IndexLoads[2].res)
    /\ dres = DirError(Err("Internal", "", "is a directory", <<"k">>))
    /\ FsKind(ResponsePath(Join(dreq.selection, <<"i">>), Paths(dreq)[di])) = "file"

\* ---------------------------------------------------------------- C30
\* The request has ended, the selected path was found to be a directory in
\* the base directory tried last, and listing is off.
DirectoryWithoutListing ==
    /\ dpc = "done"
    /\ PathLoads # <<>>
    /\ IsDirectory(PathLoads[Len(PathLoads)].res)
    /\ ~dreq.listing

\* Every index name was tried and none was found.
AllIndexNamesMissing ==
    /\ Len(IndexLoads) = Len(IndexNames(dreq.index))
    /\ \A k \in 1..Len(IndexLoads) : IsNotFound(IndexLoads[k].res)

\* C30 as stated: when the selected path is a directory and listing is
\* disabled, the request ends Forbidden whenever no index file is served:
\* with no load of an index file and no redirect if the index list is
\* empty, and after all index names were tried and found missing otherwise.
C30_ForbiddenUnlessIndexServed ==
    (DirectoryWithoutListing /\ dres.kind # "file")
        => /\ dres = DirError(Err("Forbidden", "", "", <<>>))
           /\ AllIndexNamesMissing

\* C30 amended: when the selected path is a directory and listing is
\* disabled, the request ends Forbidden without a redirect or an index
\* attempt if the index list is empty; otherwise the redirect to the
\* trailing slash, when it applies, comes first and no index name is tried,
\* and without it the request ends Forbidden exactly when all index names
\* were tried and found missing, the other outcomes being the first index
\* file that loads and Internal for an index name that fails otherwise.
C30_ForbiddenWithoutListing ==
    DirectoryWithoutListing
        => IF IndexNames(dreq.index) = <<>>
           THEN dres = DirError(Err("Forbidden", "", "", <<>>)) /\ IndexLoads = <<>>
           ELSE IF RedirectsToSlash(dreq)
           THEN dres.kind = "redirect" /\ IndexLoads = <<>>
           ELSE /\ dres = DirError(Err("Forbidden", "", "", <<>>)) <=> AllIndexNamesMissing
                /\ \/ dres = DirError(Err("Forbidden", "", "", <<>>))
                   \/ dres.kind = "file" /\ IndexLoads[Len(IndexLoads)].res = NoErr
                   \/ /\ dres.kind = "error" /\ dres.err.kind = "Internal"
                      /\ ~IsNotFound(IndexLoads[Len(IndexLoads)].res)

\* The directory s was selected with listing off and the one index name n,
\* which is missing: the request ended Forbidden after n was tried.
C30_Witness ==
    /\ DirectoryWithoutListing
    /\ IndexNames(dreq.index) = << <<"n">> >>
    /\ Len(IndexLoads) = 1
    /\ IsNotFound(IndexLoads[1].res)
    /\ dres = DirError(Err("Forbidden", "", "", <<>>))

\* ---------------------------------------------------------------- C31
\* The request has ended and the selected path was found to be a directory
\* in the base directory tried last.
SelectedDirectory ==
    /\ dpc = "done"
    /\ PathLoads # <<>>
    /\ IsDirectory(PathLoads[Len(PathLoads)].res)

\* The redirect issued for the request: the same path plus '/', no index
\* file attempted and no listing generated.
RedirectIssued ==
    /\ dres = DirResult("redirect", NoErr, dreq.selection \o <<"/">>, Paths(dreq)[di])
    /\ IndexLoads = <<>>

\* The three conditions of the redirect: it is not disabled, the host
\* does not strip trailing slashes, and the request URL lacks one.
RedirectConditions ==
    dreq.redirectToSlash /\ ~dreq.stripTrailingSlash /\ ~dreq.hasTrailingSlash

\* No index name is configured and listing is disabled.
RefusedUpFront == IndexNames(dreq.index) = <<>> /\ ~dreq.listing

\* C31 as stated: when the selected path is a directory, the request URL
\* lacks a trailing slash, redirect-to-slash is not disabled and the host
\* does not strip trailing slashes, a redirect to the same path plus '/' is
\* issued before any index file is attempted and before any listing is
\* generated; if any of the three conditions fails no redirect is issued.
C31_RedirectWhenNoSlash ==
    /\ SelectedDirectory => (RedirectConditions <=> dres.kind = "redirect")
    /\ dres.kind = "redirect" => SelectedDirectory /\ RedirectIssued

\* C31 amended: the same, except that a directory with an empty index list
\* and listing disabled is refused with Forbidden before the redirect is
\* considered.
C31_RedirectUnlessRefused ==
    /\ SelectedDirectory
          => /\ (RedirectConditions /\ ~RefusedUpFront) <=> dres.kind = "redirect"
             /\ RefusedUpFront => dres = DirError(Err("Forbidden", "", "", <<>>))
    /\ dres.kind = "redirect" => SelectedDirectory /\ RedirectIssued

\* The directory s was requested without trailing slash: the redirect to
\* s/ was issued and the index file s/i, which exists, was not loaded.
C31_Witness ==
    /\ SelectedDirectory
    /\ dreq.selection = <<"s">>
    /\ RedirectIssued
    /\ dres.path = <<"s", "/">>
    /\ IndexNames(dreq.index) = <<IndexHtml>>
    /\ FsKind(ResponsePath(Join(dreq.selection, IndexHtml), Paths(dreq)[di])) = "file"

\* ---------------------------------------------------------------- C32
\* Some component of the '/'-separated path begins with '.' and is neither
\* '.' nor '..'.
HasHiddenComponent(path) ==
    LET parts == SplitFrom(path, 1, <<>>)
    IN \E n \in 1..Len(parts) :
          /\ Len(parts[n]) > 0
          /\ parts[n][1] = "."
          /\ parts[n] \notin { <<".">>, <<".", ".">> }

\* C32: with show-hidden off, a selection in which a path component begins
\* with '.' (a bare '.' or '..' aside) is rejected with NotFound before any
\* base directory is opened, whether or not the file exists; no other
\* selection is rejected that way, and with show-hidden on the same
\* selection is looked up in the base directories like any other.
C32_HiddenRejected ==
    dreq.pathFn \notin { "error", "invalid" } =>
        IF ~dreq.showHidden /\ HasHiddenComponent(dreq.selection)
        THEN /\ dlog = <<>>
             /\ dpc \in { "idle", "done" }
             /\ dpc = "done" => dres = DirError(Err("NotFound", "", "", <<>>))
        ELSE (dpc # "idle" /\ Paths(dreq) # <<>>)
                => /\ dpc = "done" => dlog # <<>>
                   /\ dlog # <<>> => dlog[1] \in { Loaded(Paths(dreq)[1], dreq.selection, "path", res) :
                                                    res \in FileLoad(dreq.selection, Paths(dreq)[1]) }
                   /\ (dpc = "done" /\ dlog[Len(dlog)].res = NoErr) => dres.kind = "file"

\* The hidden file .h, which exists in the base directory, was refused with
\* show-hidden off and no load was made.
C32_Witness ==
    /\ dpc = "done"
    /\ ~dreq.showHidden
    /\ dreq.selection = <<".", "h">>
    /\ Paths(dreq) # <<>>
    /\ FsKind(Join(Paths(dreq)[1], dreq.selection)) = "file"
    /\ dres = DirError(Err("NotFound", "", "", <<>>))
    /\ dlog = <<>>

\* ---------------------------------------------------------------- C33
\* The path of the further attempt: the selection without its trailing
\* slash, '.', and the default extension.
ExtendedPath ==
    (IF EndsWithSlash(dreq.selection)
     THEN SubSeq(dreq.selection, 1, Len(dreq.selection) - 1)
     ELSE dreq.selection) \o <<".">> \o dreq.defaultExtension

\* With a default extension, a selected path that is not found in a base
\* directory is followed by one load of '<path>.<extension>' in the same
\* base directory, and by no second one; without a default extension, and
\* after any other result, no such load is made.
OneFurtherAttempt ==
    /\ \A n \in 1..Len(dlog) :
          dlog[n].as = "ext"
              => /\ n > 1
                 /\ dlog[n - 1].as = "path"
                 /\ IsNotFound(dlog[n - 1].res)
                 /\ dlog[n].dir = dlog[n - 1].dir
                 /\ dlog[n].path = ExtendedPath
                 /\ dreq.defaultExtension # <<>>
    /\ \A n \in 1..Len(dlog) :
          (dlog[n].as = "path" /\ IsNotFound(dlog[n].res) /\ dreq.defaultExtension # <<>>)
              => IF n = Len(dlog) THEN dpc = "extLoading" ELSE dlog[n + 1].as = "ext"

\* C33: with a default extension configured, a not-found result for the
\* selected path causes exactly one further attempt at
\* '<path>.<extension>' in the same base directory; if that attempt fails
\* with an error other than not-found, that error is the request's outcome;
\* if it is not found in the last base directory the outcome is NotFound.
C33_ExtensionErrorSurfaced ==
    /\ OneFurtherAttempt
    /\ \A n \in 1..Len(dlog) :
          (dlog[n].as = "ext" /\ dlog[n].res # NoErr)
              => IF IsNotFound(dlog[n].res)
                 THEN (n = Len(dlog) /\ Len(PathLoads) = Len(Paths(dreq)))
                          => dpc = "done" /\ dres = DirError(Err("NotFound", "", "", <<>>))
                 ELSE /\ n = Len(dlog)
                      /\ dpc = "done"
                      /\ dres = DirError(dlog[n].res)

\* The same without the middle part: a further attempt that is not found
\* in the last base directory ends the request with NotFound, and one that
\* loads is served.
C33_ExtensionAttemptedOnce ==
    /\ OneFurtherAttempt
    /\ \A n \in 1..Len(dlog) :
          dlog[n].as = "ext"
              => /\ (IsNotFound(dlog[n].res) /\ n = Len(dlog) /\ Len(PathLoads) = Len(Paths(dreq)))
                       => dpc = "done" /\ dres = DirError(Err("NotFound", "", "", <<>>))
                 /\ dlog[n].res = NoErr
                       => /\ n = Len(dlog)
                          /\ dpc = "done"
                          /\ dres = DirResult("file", NoErr, ExtendedPath, dlog[n].dir)

\* ---------------------------------------------------------------- C34
\* C34: a request for an existing regular file that was prepared, and
\* served without a look-up of a compressed sibling, has made exactly one
\* Fs.open and exactly one Fs.fstat call, whether the response came from
\* exports.response and was prepared by the host or came prepared from
\* exports.load; the host prepares no response of exports.load again.
C34_OneOpenOneStat ==
    \A r \in Reqs :
        /\ pc[r] \in { "prepared", "hashing", "awaiting" } => calls[r] = [open |-> 1, stat |-> 1]
        /\ (pc[r] \in { "streaming", "sent", "marshalFailed", "done" }
               /\ ~LookupCompressed(request[r]))
              => calls[r] = [open |-> 1, stat |-> 1]
        /\ via[r] = "host" => pc[r] \notin { "tick", "opening", "stating" }

\* The file x came prepared from exports.load, was handed to the host and
\* is being streamed after one open and one stat.
C34_Witness ==
    /\ via[1] = "host"
    /\ pc[1] = "streaming"
    /\ FsKind(srcPath[1]) = "file"
    /\ ~LookupCompressed(request[1])
    /\ calls[1] = [open |-> 1, stat |-> 1]

\* ---------------------------------------------------------------- C35
\* C35: when a shared hash computation has finished, with a hash or with
\* an error, its entry is gone from the pending table before its initiator
\* or a joiner resumes: every entry of the table is a computation still
\* running, a requester resumes only from a computation that is no longer
\* registered, and a requester that joins, joins a running one.
C35_DeletedBeforeResume ==
    /\ [](\A e \in pendings : promise[e[2]].state = "pending" /\ promise[e[2]].key = e[1])
    /\ [][\A r \in Reqs :
            /\ (pc[r] = "awaiting" /\ pc'[r] # "awaiting")
                  => /\ promise[waitOn[r]].state \in { "fulfilled", "rejected" }
                     /\ \A e \in pendings : e[2] # waitOn[r]
            /\ (waitOn[r] = Null /\ waitOn'[r] \notin { Null, r })
                  => /\ promise[waitOn'[r]].state = "pending"
                     /\ PendingsGet(pendings, promise[waitOn'[r]].key) = waitOn'[r]]_vars

\* A computation has finished and neither its initiator nor its joiner has
\* resumed yet: the pending table no longer holds its key.
C35_Witness ==
    \E r1, r2 \in Reqs :
        /\ r1 # r2
        /\ promise[r1].state \in { "fulfilled", "rejected" }
        /\ pc[r1] = "awaiting"
        /\ pc[r2] = "awaiting"
        /\ waitOn[r2] = r1
        /\ PendingsGet(pendings, promise[r1].key) = Null

\* ---------------------------------------------------------------- C36
\* C36 as stated: at every point of a request at most one descriptor opened
\* on its behalf is open.
C36_AtMostOneDescriptor ==
    \A r \in Reqs : Cardinality(OpenFdsOf(r)) <= 1

\* C36: the primary handle is closed before the sibling's descriptor is
\* installed as the response's source.  A request holds two open descriptors
\* only between the sibling's open and the end of its stat, with the primary
\* one still installed; wherever the sibling's descriptor is open outside
\* that window the primary one has been closed by the handle and the
\* response is the substituted one.
C36_PrimaryClosedBeforeInstalled ==
    \A r \in Reqs :
        /\ Cardinality(OpenFdsOf(r)) = 2
              => /\ pc[r] = "gzStating"
                 /\ opFd[r] = FdOf(r, "gz")
                 /\ srcFd[r] = FdOf(r, "file")
        /\ (fds[FdOf(r, "gz")].state = "open" /\ pc[r] # "gzStating")
              => /\ fds[FdOf(r, "file")].state = "closed"
                 /\ fds[FdOf(r, "file")].by = {"handle"}
                 /\ fds[FdOf(r, "file")].closes = 1
                 /\ response[r].encoding = "gzip"

\* The sibling has been substituted and is being streamed: its descriptor
\* is the only open one of the request.
C36_Witness ==
    \E r \in Reqs :
        /\ pc[r] = "streaming"
        /\ response[r].encoding = "gzip"
        /\ OpenFdsOf(r) = { FdOf(r, "gz") }
        /\ fds[FdOf(r, "file")].state = "closed"

\* ---------------------------------------------------------------- C37
\* The phases of a request attempt in the order the code runs them:
\* resolving, opening, stating, fingerprinting, (handed to the host),
\* compressed-sibling lookup, range negotiation with streaming, end.
PhaseRank(p) ==
    CASE p = "idle" -> 0
      [] p = "created" -> 1
      [] p \in { "tick", "opening" } -> 2
      [] p = "stating" -> 3
      [] p = "hashing" -> 4
      [] p = "awaiting" -> 5
      [] p = "prepared" -> 6
      [] p = "gzOpening" -> 7
      [] p = "gzStating" -> 8
      [] p \in { "streaming", "marshalFailed" } -> 9
      [] p = "sent" -> 10
      [] OTHER -> 11

FingerprintComputed(r) == etag[r] # NoEtag \/ waitOn[r] # Null
RangeNegotiated(r) == response[r].start # None

C38_CachedOnlyOnSuccess ==
    /\ [][\A r \in Reqs :
            /\ (promise[r].state = "pending" /\ promise'[r].state = "rejected")
                  => /\ etags' = etags
                     /\ PendingsGet(pendings', promise[r].key) = Null
            /\ (promise[r].state = "pending" /\ promise'[r].state = "fulfilled")
                  => /\ CacheHas(etags', promise[r].key)
                     /\ CacheValue(etags', promise[r].key) = promise'[r].val
            /\ (pc[r] = "stating" /\ pc'[r] = "awaiting")
                  => promise'[waitOn'[r]].state = "pending"
            /\ (pc[r] = "stating" /\ pc'[r] = "prepared" /\ etagMethod'[r] = "hash" /\ etagsOn)
                  => /\ etag'[r] = Sha1(srcPath[r])
                     /\ err'[r] = NoErr]_vars
    /\ [][\A i \in 1..Len(etags') :
            (\A j \in 1..Len(etags) : etags[j] # etags'[i])
               => \E r \in Reqs : /\ promise[r].state = "pending"
                                  /\ promise'[r].state = "fulfilled"
                                  /\ etags'[i] = [key |-> promise[r].key, val |-> promise'[r].val]]_vars

\* A computation has failed, the cache holds nothing for its key, and a
\* later request for the same key is running a computation of its own.
C38_Witness ==
    \E r1, r2 \in Reqs :
        /\ r1 # r2
        /\ promise[r1].state = "rejected"
        /\ pc[r2] = "hashing"
        /\ waitOn[r2] = r2
        /\ promise[r2].state = "pending"
        /\ promise[r2].key = promise[r1].key
        /\ ~CacheHas(etags, promise[r1].key)
        /\ PendingsGet(pendings, promise[r1].key) = r2

\* ---------------------------------------------------------------- C39
\* C39: hashing neither transfers nor releases a descriptor.  The hash
\* stream reads through its initiator's descriptor with auto-close off;
\* while a request hashes or waits, and when the hash stream has ended,
\* its handle still owns its own open descriptor; a descriptor changes
\* only in a step of the request it was opened for, and a body stream
\* reads a descriptor of its own request.
C39_HashingKeepsDescriptors ==
    /\ [](\A s \in streams :
            /\ s.kind = "hash"
                  => /\ ~s.autoClose
                     /\ pc[s.req] = "hashing"
                     /\ s.fd = FdOf(s.req, "file")
            /\ s.kind = "body" => s.fd \in { FdOf(s.req, "file"), FdOf(s.req, "gz") })
    /\ [](\A r \in Reqs :
            pc[r] \in { "hashing", "awaiting" }
               => /\ srcFd[r] = FdOf(r, "file")
                  /\ fds[srcFd[r]].state = "open"
                  /\ fds[srcFd[r]].closes = 0)
    /\ [][\A r \in Reqs :
            (pc[r] = "hashing" /\ pc'[r] # "hashing") => (fds' = fds /\ srcFd' = srcFd)]_vars
    /\ [][\A r \in Reqs :
            (\E slot \in { "file", "gz" } : fds'[FdOf(r, slot)] # fds[FdOf(r, slot)])
               => pc'[r] # pc[r]]_vars

\* The hash stream has ended: the initiator and its joiner, not yet
\* resumed, each still own their own open descriptor.
C39_Witness ==
    \E r1, r2 \in Reqs :
        /\ r1 # r2
        /\ pc[r1] = "awaiting"
        /\ waitOn[r1] = r1
        /\ promise[r1].state \in { "fulfilled", "rejected" }
        /\ pc[r2] = "awaiting"
        /\ waitOn[r2] = r1
        /\ srcFd[r1] = FdOf(r1, "file")
        /\ srcFd[r2] = FdOf(r2, "file")
        /\ fds[srcFd[r1]].state = "open"
        /\ fds[srcFd[r2]].state = "open"
        /\ ~\E s \in streams : s.kind = "hash"

\* ---------------------------------------------------------------- C40
SiblingOf(r) == srcPath[r] \o GzSuffix
SubstitutionStep(r) == pc[r] = "gzStating" /\ response'[r].encoding = "gzip"

\* C40: the substitution of the precompressed sibling changes
\* content-length, content-encoding and vary only.  The ETag and
\* last-modified set from the primary file stay as they are, so the response
\* carries the primary file's fingerprint and date with the sibling's bytes
\* and length; what else changes in that step is the range negotiation of
\* every marshal.
C40_SubstitutionKeepsFingerprint ==
    /\ [][\A r \in Reqs :
            SubstitutionStep(r)
               => /\ etag' = etag
                  /\ response'[r].lastModified = response[r].lastModified
                  /\ response'[r].vary = <<"accept-encoding">>
                  /\ response[r].vary = NoHeader
                  /\ response[r].encoding = ""
                  /\ request[r].range = NoHeader
                        => response'[r] = [response[r] EXCEPT !.length = StatOf(SiblingOf(r)).size,
                                                              !.encoding = "gzip",
                                                              !.vary = <<"accept-encoding">>,
                                                              !.acceptRanges = response'[r].acceptRanges,
                                                              !.start = response'[r].start]
                  /\ pc'[r] = "streaming"
                        => \E s \in streams' : s.req = r /\ s.kind = "body" /\ s.fd = FdOf(r, "gz")]_vars
    /\ [](\A r \in Reqs :
            response[r].encoding = "gzip"
               => /\ response[r].lastModified = ToUTCString(srcStat[r].mtime)
                  /\ response[r].lastModified # ToUTCString(StatOf(SiblingOf(r)).mtime)
                  /\ etagMethod[r] = "simple" => etag[r] = ComputeSimple(srcStat[r])
                  /\ (etagMethod[r] = "hash" /\ etagsOn) => etag[r] = Sha1(srcPath[r])
                  /\ response[r].code = 200 => response[r].length = StatOf(SiblingOf(r)).size)

\* The sibling is streamed under the primary file's hashed fingerprint and
\* date.
C40_Witness ==
    \E r \in Reqs :
        /\ pc[r] = "streaming"
        /\ response[r].encoding = "gzip"
        /\ response[r].vary = <<"accept-encoding">>
        /\ response[r].length = StatOf(SiblingOf(r)).size
        /\ response[r].length # srcStat[r].size
        /\ etag[r] = Sha1(srcPath[r])
        /\ response[r].lastModified = ToUTCString(srcStat[r].mtime)

====
